---- MODULE Spec2Model ----
(***************************************************************************)
(* A model of the FAQ scraper (mycash.utah.gov): the extraction functions  *)
(* of prod-scraper (faq_claim.py, useful_link.py) and the three scrape     *)
(* runs (prod-scraper, new-playwright and Playwright lambda_function.py).  *)
(* Text is a sequence of one-character strings, so that trimming,          *)
(* prefixing and joining are computed and not assumed.                     *)
(***************************************************************************)
EXTENDS Integers, Sequences, FiniteSets, TLC

(***************************************************************************)
(* Bounds of the model.                                                    *)
(***************************************************************************)
\* the longest sequence of sibling nodes in the content container of a page
MaxNodes == 3

(***************************************************************************)
(* Text.                                                                   *)
(***************************************************************************)
Whitespace == {" ", "\n", "\t"}

RECURSIVE lstrip(_)
lstrip(s) ==
    IF s = <<>> THEN <<>>
    ELSE IF Head(s) \in Whitespace THEN lstrip(Tail(s)) ELSE s

RECURSIVE rstrip(_)
rstrip(s) ==
    IF s = <<>> THEN <<>>
    ELSE IF s[Len(s)] \in Whitespace THEN rstrip(SubSeq(s, 1, Len(s) - 1)) ELSE s

\* str.strip()
strip(s) == rstrip(lstrip(s))

\* sep.join(parts)
RECURSIVE join(_, _)
join(sep, parts) ==
    IF parts = <<>> THEN <<>>
    ELSE IF Len(parts) = 1 THEN parts[1]
    ELSE parts[1] \o sep \o join(sep, Tail(parts))

\* str(n) for the small ordinals of list items
Digits == <<"0", "1", "2", "3", "4", "5", "6", "7", "8", "9">>

RECURSIVE str(_)
str(n) == IF n < 10 THEN <<Digits[n + 1]>> ELSE str(n \div 10) \o <<Digits[(n % 10) + 1]>>

(***************************************************************************)
(* The DOM of a loaded page.  A node of the content container:             *)
(*   tag, cls (the class tokens), text (its own text), href, items (the    *)
(*   direct li children of a list, each with the items of a list nested in *)
(*   it), bad (reading the element throws: a detached node).               *)
(***************************************************************************)
NoItems == <<>>

Elem(tag, cls, text) ==
    [tag |-> tag, cls |-> cls, text |-> text, href |-> <<>>, items |-> NoItems, bad |-> FALSE]

Li(text, subtag, sub) == [text |-> text, subtag |-> subtag, sub |-> sub]

ListElem(tag, items) ==
    [tag |-> tag, cls |-> {}, text |-> <<>>, href |-> <<>>, items |-> items, bad |-> FALSE]

Link(text, href) ==
    [tag |-> "a", cls |-> {}, text |-> text, href |-> href, items |-> NoItems, bad |-> FALSE]

Broken(e) == [e EXCEPT !.bad = TRUE]

TxtQ1 == <<" ", "Q", "1", " ">>
TxtQ2 == <<"Q", "2">>
TxtBlank == <<" ">>
TxtA == <<"A">>
TxtB == <<"B">>
TxtX == <<"X">>
TxtL == <<"L", " ">>
TxtU == <<"/", "u">>

NodeQ1 == Elem("h6", {"card-title"}, TxtQ1)
NodeQ2 == Elem("h6", {"card-title", "mt-3"}, TxtQ2)
NodeQBlank == Elem("h6", {"card-title"}, TxtBlank)
NodeQBad == Broken(NodeQ2)
NodeP == Elem("p", {"card-text"}, <<"A", " ">>)
NodePBlank == Elem("p", {"card-text"}, TxtBlank)
NodePPlain == Elem("p", {}, TxtX)
NodeUl == ListElem("ul", <<Li(TxtA, "", <<>>), Li(TxtB, "", <<>>)>>)
NodeOl == ListElem("ol", <<Li(TxtA, "", <<>>), Li(TxtB, "", <<>>)>>)
NodeOlNested == ListElem("ol", <<Li(TxtA, "ul", <<TxtX>>)>>)
NodeOlGap == ListElem("ol", <<Li(TxtBlank, "", <<>>), Li(TxtB, "", <<>>)>>)
NodeLink == Link(TxtL, TxtU)
NodeLinkNoText == Link(TxtBlank, TxtU)
NodeLinkNoHref == Link(TxtL, <<>>)
NodeLinkBad == Broken(NodeLink)

NodePool ==
    {NodeQ1, NodeQ2, NodeQBlank, NodeQBad, NodeP, NodePBlank, NodeUl, NodeOl,
     NodeOlNested, NodeOlGap, NodeLink, NodeLinkNoText, NodeLinkNoHref, NodeLinkBad}

SeqsUpTo(S, n) == UNION {[1..k -> S] : k \in 0..n}

\* what lies outside the first div.card-body of the page
Outside == {<<>>, <<NodeQ2, NodeP, NodeLink>>}

\* content: section#page-content appears before the wait times out (and the
\* lookups that follow it, before the loop, do not raise);
\* card: the page has a div.card-body; nodes: the children of the first one
Pages ==
    {[content |-> c, card |-> TRUE, nodes |-> ns, rest |-> r] :
        c \in BOOLEAN, ns \in SeqsUpTo(NodePool, MaxNodes), r \in Outside}
    \cup {[content |-> TRUE, card |-> FALSE, nodes |-> <<>>, rest |-> <<>>]}

(***************************************************************************)
(* faq_claim.py: extract_faq_claim.                                        *)
(***************************************************************************)
IsQuestion(e) == e.tag = "h6" /\ "card-title" \in e.cls

\* card_body.locator('h6.card-title').all(): the positions of the question nodes
RECURSIVE Positions(_, _, _)
Positions(nodes, k, tag) ==
    IF k > Len(nodes) THEN <<>>
    ELSE (IF (tag = "h6" /\ IsQuestion(nodes[k])) \/ (tag = "a" /\ nodes[k].tag = "a")
          THEN <<k>> ELSE <<>>) \o Positions(nodes, k + 1, tag)

question_elements(page) == Positions(page.nodes, 1, "h6")

\* question_elem.locator('xpath=following-sibling::*').all()
following_elements(page, i) == SubSeq(page.nodes, i + 1, Len(page.nodes))

\* li.inner_text(): the text of the item and of the list nested in it
InnerTextLi(li) ==
    IF li.sub = <<>> THEN li.text ELSE li.text \o <<"\n">> \o join(<<"\n">>, li.sub)

\* elem.locator('li').all(): every li below the list, nested ones included,
\* in document order; each as its inner text
RECURSIVE AllLiTexts(_)
AllLiTexts(items) ==
    IF items = <<>> THEN <<>>
    ELSE <<InnerTextLi(Head(items))>> \o Head(items).sub \o AllLiTexts(Tail(items))

\* the prefix of an unordered item, "\u2022 " in the source ("*" stands for the bullet)
Bullet == <<"*", " ">>

\* a variant of AppendListItems that numbers an ordered item by its position among
\* the items of its list
AppendListItems_ByPosition(tag, texts, parts) ==
    LET li_texts == SelectSeq([k \in 1..Len(texts) |-> strip(texts[k])], LAMBDA t : t # <<>>)
    IN parts \o [k \in 1..Len(li_texts) |->
                    (IF tag = "ul" THEN Bullet ELSE str(k) \o <<".", " ">>) \o li_texts[k]]

\* lines 62-66: the items of one list appended to answer_parts
RECURSIVE AppendListItems(_, _, _)
AppendListItems(tag, texts, parts) ==
    IF texts = <<>> THEN parts
    ELSE LET li_text == strip(Head(texts))
             prefix == IF tag = "ul" THEN Bullet ELSE str(Len(parts) + 1) \o <<".", " ">>
         IN AppendListItems(tag, Tail(texts),
                IF li_text # <<>> THEN Append(parts, prefix \o li_text) ELSE parts)

\* a variant of CollectAnswer that does not stop at the next question node
RECURSIVE CollectAnswer_NoBreak(_, _, _)
CollectAnswer_NoBreak(elems, k, parts) ==
    IF k > Len(elems) THEN [raised |-> FALSE, parts |-> parts]
    ELSE LET elem == elems[k] IN
         IF elem.bad THEN [raised |-> TRUE, parts |-> parts]
         ELSE IF elem.tag = "p" /\ "card-text" \in elem.cls
              THEN CollectAnswer_NoBreak(elems, k + 1,
                       IF strip(elem.text) # <<>> THEN Append(parts, strip(elem.text)) ELSE parts)
         ELSE IF elem.tag \in {"ul", "ol"}
              THEN CollectAnswer_NoBreak(elems, k + 1,
                       AppendListItems(elem.tag, AllLiTexts(elem.items), parts))
         ELSE CollectAnswer_NoBreak(elems, k + 1, parts)

\* lines 45-66: the loop over the following siblings; raised: an element read threw
RECURSIVE CollectAnswer(_, _, _)
CollectAnswer(elems, k, parts) ==
    IF k > Len(elems) THEN [raised |-> FALSE, parts |-> parts]
    ELSE LET elem == elems[k] IN
         IF elem.bad THEN [raised |-> TRUE, parts |-> parts]
         ELSE IF IsQuestion(elem) THEN [raised |-> FALSE, parts |-> parts]
         ELSE IF elem.tag = "p" /\ "card-text" \in elem.cls
              THEN CollectAnswer(elems, k + 1,
                       IF strip(elem.text) # <<>> THEN Append(parts, strip(elem.text)) ELSE parts)
         ELSE IF elem.tag \in {"ul", "ol"}
              THEN CollectAnswer(elems, k + 1,
                       AppendListItems(elem.tag, AllLiTexts(elem.items), parts))
         ELSE CollectAnswer(elems, k + 1, parts)

FaqRecord(q, a) == [question |-> q, answer |-> a]

\* a variant of FaqClaimBody that records a question only when an answer was found
FaqClaimBody_AnsweredOnly(page, i) ==
    LET question_elem == page.nodes[i] IN
    IF question_elem.bad THEN <<>>
    ELSE LET got == CollectAnswer(following_elements(page, i), 1, <<>>)
         IN IF got.raised \/ got.parts = <<>> THEN <<>>
            ELSE <<FaqRecord(strip(question_elem.text), join(<<"\n", "\n">>, got.parts))>>

\* lines 35-85: the body of the loop for the question node at position i:
\* the records it appends to faq_data (none when the body raised)
FaqClaimBody(page, i) ==
    LET question_elem == page.nodes[i] IN
    IF question_elem.bad THEN <<>>
    ELSE LET question_text == strip(question_elem.text)
             got == CollectAnswer(following_elements(page, i), 1, <<>>)
         IN IF got.raised THEN <<>>
            ELSE IF got.parts # <<>>
                 THEN <<FaqRecord(question_text, join(<<"\n", "\n">>, got.parts))>>
                 ELSE <<FaqRecord(question_text, <<>>)>>

(***************************************************************************)
(* useful_link.py: extract_useful_link.                                    *)
(***************************************************************************)
link_elements(page) == Positions(page.nodes, 1, "a")

\* a variant of UsefulLinkBody that keeps the text of the link untrimmed and
\* records a link without target
UsefulLinkBody_Untrimmed(page, i) ==
    LET link_elem == page.nodes[i] IN
    IF link_elem.bad THEN <<>>
    ELSE LET link_text == link_elem.text
             href == link_elem.href
         IN IF strip(link_text) = <<>> THEN <<>>
            ELSE <<FaqRecord(link_text, <<"[">> \o link_text \o <<"]", "(">> \o href \o <<")">>)>>

\* lines 35-54: the body of the loop for the link at position i
UsefulLinkBody(page, i) ==
    LET link_elem == page.nodes[i] IN
    IF link_elem.bad THEN <<>>
    ELSE LET link_text == strip(link_elem.text)
             href == link_elem.href
         IN IF link_text = <<>> \/ href = <<>> THEN <<>>
            ELSE <<FaqRecord(link_text, <<"[">> \o link_text \o <<"]", "(">> \o href \o <<")">>)>>

\* the elements the loop of an extraction function runs over
LoopElements(fn, page) ==
    IF fn = "faq_claim" THEN question_elements(page) ELSE link_elements(page)

LoopBody(fn, page, i) ==
    IF fn = "faq_claim" THEN FaqClaimBody(page, i) ELSE UsefulLinkBody(page, i)

\* the whole loop, from the k-th element on
RECURSIVE RunLoop(_, _, _, _)
RunLoop(fn, page, elems, k) ==
    IF k > Len(elems) THEN <<>>
    ELSE LoopBody(fn, page, elems[k]) \o RunLoop(fn, page, elems, k + 1)

\* lines 18-27 of both: the wait for section#page-content (a timeout is caught by
\* the outer except) and the card-body test; TRUE when the loop is entered
EntersLoop(page) == page.content /\ page.card

extract_faq_claim(page) ==
    IF EntersLoop(page) THEN RunLoop("faq_claim", page, question_elements(page), 1) ELSE <<>>

extract_useful_link(page) ==
    IF EntersLoop(page) THEN RunLoop("useful_link", page, link_elements(page), 1) ELSE <<>>


(***************************************************************************)
(* URLs and category names.  A string of the run is a sequence of tokens:  *)
(* a lower-case word, or one of the separators "/", "#", "-", " ".         *)
(***************************************************************************)
\* the longest list of URLs handed to scrape_all_categories directly
MaxUrls == 2

\* s.split(sep)[-1]
RECURSIVE LastField(_, _)
LastField(s, sep) ==
    IF s = <<>> THEN <<>>
    ELSE IF s[Len(s)] = sep THEN <<>>
    ELSE Append(LastField(SubSeq(s, 1, Len(s) - 1), sep), s[Len(s)])

\* s.split(sep)[0]
RECURSIVE FirstField(_, _)
FirstField(s, sep) ==
    IF s = <<>> THEN <<>>
    ELSE IF Head(s) = sep THEN <<>>
    ELSE <<Head(s)>> \o FirstField(Tail(s), sep)

\* s.replace('-', ' ')
Dashless(s) == [k \in 1..Len(s) |-> IF s[k] = "-" THEN " " ELSE s[k]]

\* word.capitalize() of the words that occur in the URLs of the model
Capitalized(w) ==
    CASE w = "faq" -> "Faq"
      [] w = "general" -> "General"
      [] w = "claim" -> "Claim"
      [] w = "evidence" -> "Evidence"
      [] w = "report" -> "Report"
      [] w = "finder" -> "Finder"
      [] w = "info" -> "Info"
      [] w = "useful" -> "Useful"
      [] w = "link" -> "Link"
      [] w = "some" -> "Some"
      [] w = "id" -> "Id"
      [] w = "top" -> "Top"
      [] OTHER -> w

\* s.title(): every word capitalized, the separators kept
title(s) == [k \in 1..Len(s) |-> Capitalized(s[k])]

base_url == <<"https:", "/", "/", "mycash.utah.gov">>

Slug(a, b) == <<a, "-", b>>

AppUrl(slug) == base_url \o <<"/", "app", "/">> \o slug

\* prod-scraper lambda_function.py, lines 34-41
CategoryIds ==
    {Slug("faq", "general"), Slug("faq", "claim"), Slug("faq", "evidence"),
     Slug("faq", "report"), Slug("finder", "info"), Slug("useful", "link")}

CATEGORY_MAPPING(id) ==
    CASE id = Slug("faq", "general") -> <<"General">>
      [] id = Slug("faq", "claim") -> <<"Claiming", " ", "Property">>
      [] id = Slug("faq", "evidence") -> <<"Evidence">>
      [] id = Slug("faq", "report") -> <<"Reporting", " ", "Property">>
      [] id = Slug("finder", "info") -> <<"Fee", " ", "Finder">>
      [] id = Slug("useful", "link") -> <<"Useful", " ", "Links">>

\* lines 50-59
get_default_faq_urls ==
    <<AppUrl(Slug("faq", "general")), AppUrl(Slug("faq", "claim")),
      AppUrl(Slug("faq", "evidence")), AppUrl(Slug("faq", "report")),
      AppUrl(Slug("finder", "info")), AppUrl(Slug("useful", "link"))>>

\* an entry of the list of URLs: a string, or a value that is no string (None)
StrUrl(s) == [isstr |-> TRUE, s |-> s]
NoneUrl == [isstr |-> FALSE, s |-> <<>>]

\* lines 91-95; called on strings only (on None, url.split raises)
category_id_of(url) == FirstField(LastField(url.s, "/"), "#")

category_name_of(url) ==
    LET category_id == category_id_of(url) IN
    IF category_id \in CategoryIds THEN CATEGORY_MAPPING(category_id)
    ELSE title(Dashless(category_id))

\* faq_general.py, faq_evidence.py, faq_report.py and finder_info.py are not among
\* the sources: the question-and-answer strategy they share with faq_claim.py
extract_qa_card(page) == extract_faq_claim(page)

\* a variant of get_extraction_method whose default is the link-list strategy
get_extraction_method_LinksByDefault(category_id) ==
    CASE category_id = Slug("faq", "general") -> "faq_general"
      [] category_id = Slug("faq", "claim") -> "faq_claim"
      [] category_id = Slug("faq", "evidence") -> "faq_evidence"
      [] category_id = Slug("faq", "report") -> "faq_report"
      [] category_id = Slug("finder", "info") -> "finder_info"
      [] OTHER -> "useful_link"

\* lines 97-107: method_mapping.get(category_id, extract_faq_general); the name of
\* the function returned
get_extraction_method(category_id) ==
    CASE category_id = Slug("faq", "general") -> "faq_general"
      [] category_id = Slug("faq", "claim") -> "faq_claim"
      [] category_id = Slug("faq", "evidence") -> "faq_evidence"
      [] category_id = Slug("faq", "report") -> "faq_report"
      [] category_id = Slug("finder", "info") -> "finder_info"
      [] category_id = Slug("useful", "link") -> "useful_link"
      [] OTHER -> "faq_general"

\* line 124: faq_data = extraction_method(page)
extraction_method(category_id, page) ==
    CASE get_extraction_method(category_id) = "useful_link" -> extract_useful_link(page)
      [] get_extraction_method(category_id) = "faq_claim" -> extract_faq_claim(page)
      [] OTHER -> extract_qa_card(page)

\* the lists of URLs of the model
UrlPool ==
    {StrUrl(AppUrl(Slug("faq", "claim"))),
     StrUrl(AppUrl(Slug("faq", "claim")) \o <<"#", "top">>),
     StrUrl(AppUrl(Slug("useful", "link"))),
     StrUrl(AppUrl(Slug("some", "id"))),
     NoneUrl}

UrlLists == SeqsUpTo(UrlPool, MaxUrls)

DefaultUrls == [k \in 1..Len(get_default_faq_urls) |-> StrUrl(get_default_faq_urls[k])]

\* the urls of the event handed to the lambda_handler of prod-scraper: none, or
\* two category URLs in an order that is not the one of the default list
Events ==
    {<<>>, <<StrUrl(AppUrl(Slug("useful", "link"))), StrUrl(AppUrl(Slug("faq", "claim")))>>}

\* the pages a navigation of a run may load
PageTwo == [content |-> TRUE, card |-> TRUE, nodes |-> <<NodeQ1, NodeP, NodeQ2>>, rest |-> <<>>]
PageLinks == [content |-> TRUE, card |-> TRUE, nodes |-> <<NodeQ1, NodeLink>>, rest |-> <<>>]
PageEmpty == [content |-> TRUE, card |-> TRUE, nodes |-> <<>>, rest |-> <<>>]
RunPages == {PageTwo, PageLinks, PageEmpty}
NoPage == [content |-> FALSE, card |-> FALSE, nodes |-> <<>>, rest |-> <<>>]

\* a page whose section#page-content does not appear in time, and one without
\* div.card-body
PageLate == [content |-> FALSE, card |-> TRUE, nodes |-> <<NodeQ1, NodeP>>, rest |-> <<>>]
PageBare == [content |-> TRUE, card |-> FALSE, nodes |-> <<>>, rest |-> <<>>]

\* the pages a navigation of prod-scraper or new-playwright may load
LoadedPages == RunPages \cup {PageLate, PageBare}

(***************************************************************************)
(* The state.                                                              *)
(*   page, fn, epc, qi, faq_data: one call of an extraction function.      *)
(*   The others: one run (a call of scrape_all_categories or of a          *)
(*   lambda_handler), its browser resources and its sinks.  browser and    *)
(*   ctx count the open ones, the ones made and the calls of close();      *)
(*   pages counts the open pages, and the pages opened and the calls of    *)
(*   close() of the category under way.  failed: the positions in urls of  *)
(*   the categories that ended on a failure of the page (a history).       *)
(*   discovery: how the discovery of the URLs ended (a history).           *)
(*   event: the urls of the invocation input (empty when absent).          *)
(*   visited: the positions in urls of the URLs whose scrape was begun, in *)
(*   the order in which they were begun (a history).                       *)
(***************************************************************************)
VARIABLES page, fn, epc, qi, faq_data,
          event, visited, rpc, entry, discovery, bucket_name, urls, ui, attempt, launches, slept,
          grouped_faqs, total_count, errors, self_browser, self_context,
          browser, ctx, pages, sc, failed, exc, response, s3_objects, metrics

evars == <<page, fn, epc, qi, faq_data>>

rvars == <<event, visited, rpc, entry, discovery, bucket_name, urls, ui, attempt, launches, slept,
           grouped_faqs, total_count, errors, self_browser, self_context,
           browser, ctx, pages, sc, failed, exc, response, s3_objects, metrics>>

vars == <<evars, rvars>>

NoResponse ==
    [kind |-> "none", statusCode |-> 0, count |-> 0, categories |-> 0,
     errors_count |-> 0, errors_key |-> FALSE, errors |-> <<>>, urls |-> <<>>]

\* the locals of scrape_single_category: the page handle, the page the navigation
\* loaded (a history), the extraction function selected, the records extracted, what follows the finally clause, the exception
\* caught last, the pauses made
NoCategory ==
    [page |-> FALSE, loaded |-> NoPage, method |-> "none", faq_data |-> <<>>, after |-> "none",
     error |-> "none", slept |-> <<>>]

\* no extraction call under way
ExtractIdle ==
    /\ page = NoPage
    /\ fn = "none"
    /\ epc = "idle"
    /\ qi = 0
    /\ faq_data = <<>>

\* no run under way
RunIdle ==
    /\ event = <<>>
    /\ visited = <<>>
    /\ rpc = "idle"
    /\ entry = "none"
    /\ discovery = "none"
    /\ bucket_name = FALSE
    /\ urls = <<>>
    /\ ui = 0
    /\ attempt = 0
    /\ launches = 0
    /\ slept = <<>>
    /\ grouped_faqs = <<>>
    /\ total_count = 0
    /\ errors = <<>>
    /\ self_browser = FALSE
    /\ self_context = FALSE
    /\ browser = [open |-> 0, launched |-> 0, close_calls |-> 0]
    /\ ctx = [open |-> 0, created |-> 0, close_calls |-> 0]
    /\ pages = [open |-> 0, opened |-> 0, close_calls |-> 0]
    /\ sc = NoCategory
    /\ failed = {}
    /\ exc = "none"
    /\ response = NoResponse
    /\ s3_objects = 0
    /\ metrics = <<>>

(***************************************************************************)
(* One call of an extraction function on a loaded page.                    *)
(***************************************************************************)
ExtractInit ==
    /\ page \in Pages
    /\ fn = "none"
    /\ epc = "idle"
    /\ qi = 0
    /\ faq_data = <<>>
    /\ RunIdle

\* the call, up to the loop (lines 16-32)
ExtractBegin ==
    /\ epc = "idle"
    /\ \E f \in {"faq_claim", "useful_link"} : fn' = f
    /\ faq_data' = <<>>
    /\ qi' = 1
    /\ epc' = IF EntersLoop(page) THEN "loop" ELSE "returned"
    /\ UNCHANGED <<page, rvars>>

\* a variant of ProcessQuestion in which a failure at one question node ends the
\* loop: the later question nodes are not processed
ProcessQuestion_StopsAtFailure ==
    /\ epc = "loop"
    /\ fn = "faq_claim"
    /\ qi <= Len(question_elements(page))
    /\ faq_data' = faq_data \o FaqClaimBody(page, question_elements(page)[qi])
    /\ qi' = qi + 1
    /\ epc' = IF FaqClaimBody(page, question_elements(page)[qi]) = <<>> THEN "returned" ELSE epc
    /\ UNCHANGED <<page, fn, rvars>>

\* one iteration of the loop of extract_faq_claim (lines 34-85)
ProcessQuestion ==
    /\ epc = "loop"
    /\ fn = "faq_claim"
    /\ qi <= Len(question_elements(page))
    /\ faq_data' = faq_data \o FaqClaimBody(page, question_elements(page)[qi])
    /\ qi' = qi + 1
    /\ UNCHANGED <<page, fn, epc, rvars>>

\* one iteration of the loop of extract_useful_link (lines 34-54)
ProcessLink ==
    /\ epc = "loop"
    /\ fn = "useful_link"
    /\ qi <= Len(link_elements(page))
    /\ faq_data' = faq_data \o UsefulLinkBody(page, link_elements(page)[qi])
    /\ qi' = qi + 1
    /\ UNCHANGED <<page, fn, epc, rvars>>

\* return faq_data
ExtractReturn ==
    /\ epc = "loop"
    /\ fn \in {"faq_claim", "useful_link"}
    /\ qi > Len(LoopElements(fn, page))
    /\ epc' = "returned"
    /\ UNCHANGED <<page, fn, qi, faq_data, rvars>>

ExtractNext == ExtractBegin \/ ProcessQuestion \/ ProcessLink \/ ExtractReturn

Spec == ExtractInit /\ [][ExtractNext]_vars

\* the loop and the function computed at once agree
LoopAgrees ==
    epc = "returned" =>
        faq_data = (IF fn = "faq_claim" THEN extract_faq_claim(page) ELSE extract_useful_link(page))

(***************************************************************************)
(* prod-scraper/lambda_function.py: a run.                                 *)
(* The outcome of every call of the browser driver, of S3 and of           *)
(* CloudWatch is chosen by the environment.                                *)
(***************************************************************************)
\* create_browser(self, p, retries=2)
retries == 2
\* scrape_single_category(self, url, max_retries=2)
max_retries == 2

\* 2 ** n, the pause of the exponential backoff
RECURSIVE Pow2(_)
Pow2(n) == IF n = 0 THEN 1 ELSE 2 * Pow2(n - 1)

\* d[k] = v
Put(d, k, v) == [x \in (DOMAIN d) \cup {k} |-> IF x = k THEN v ELSE d[x]]

\* resource bookkeeping of the driver
Opened(r, what) == [r EXCEPT !.open = @ + 1, ![what] = @ + 1]
CloseCalled(r, ok) == [r EXCEPT !.close_calls = @ + 1, !.open = IF ok THEN @ - 1 ELSE @]

\* the run starts: lambda_handler is invoked (BUCKET_NAME set or not), or
\* scrape_all_categories is called with a list of URLs
ProdInit ==
    /\ ExtractIdle
    /\ entry \in {"lambda_handler", "scrape_all_categories"}
    /\ event \in (IF entry = "lambda_handler" THEN Events ELSE {<<>>})
    /\ visited = <<>>
    /\ discovery = "none"
    /\ bucket_name \in BOOLEAN
    /\ entry = "scrape_all_categories" => bucket_name = TRUE
    /\ urls \in (IF entry = "lambda_handler" THEN {<<>>} ELSE UrlLists)
    /\ rpc = (IF entry = "lambda_handler" THEN "handler" ELSE "create_browser")
    /\ ui = 1
    /\ attempt = 0
    /\ launches = 0
    /\ slept = <<>>
    /\ grouped_faqs = <<>>
    /\ total_count = 0
    /\ errors = <<>>
    /\ self_browser = FALSE
    /\ self_context = FALSE
    /\ browser = [open |-> 0, launched |-> 0, close_calls |-> 0]
    /\ ctx = [open |-> 0, created |-> 0, close_calls |-> 0]
    /\ pages = [open |-> 0, opened |-> 0, close_calls |-> 0]
    /\ sc = NoCategory
    /\ failed = {}
    /\ exc = "none"
    /\ response = NoResponse
    /\ s3_objects = 0
    /\ metrics = <<>>

\* lambda_handler, lines 212-234: the configuration check is made before the try
ProdHandlerStart ==
    /\ rpc = "handler"
    /\ IF ~bucket_name
       THEN /\ response' = [NoResponse EXCEPT !.kind = "raised"]
            /\ rpc' = "done"
            /\ UNCHANGED urls
       ELSE /\ urls' = DefaultUrls
            /\ rpc' = "create_browser"
            /\ UNCHANGED response
    /\ UNCHANGED <<evars, event, visited, entry, discovery, bucket_name, ui, attempt, launches,
                   slept, grouped_faqs, total_count, errors, self_browser, self_context,
                   browser, ctx, pages, sc, failed, exc, s3_objects, metrics>>

\* a variant of ProdCreateBrowser that makes the next attempt at once
ProdCreateBrowser_NoPause ==
    /\ rpc = "create_browser"
    /\ \E ok \in BOOLEAN :
         IF ok
         THEN /\ browser' = Opened(browser, "launched")
              /\ self_browser' = TRUE
              /\ launches' = launches + 1
              /\ rpc' = "new_context"
              /\ UNCHANGED <<slept, exc>>
         ELSE /\ launches' = launches + 1
              /\ IF launches < retries
                 THEN /\ slept' = slept
                      /\ UNCHANGED <<rpc, exc>>
                 ELSE /\ exc' = "Exception"
                      /\ rpc' = "finally"
                      /\ UNCHANGED slept
              /\ UNCHANGED <<browser, self_browser>>
    /\ UNCHANGED <<evars, event, visited, entry, discovery, bucket_name, urls, ui, attempt,
                   grouped_faqs, total_count, errors, self_context, ctx, pages, sc, failed,
                   response, s3_objects, metrics>>

\* create_browser, lines 61-89: one attempt of the loop
ProdCreateBrowser ==
    /\ rpc = "create_browser"
    /\ \E ok \in BOOLEAN :
         IF ok
         THEN /\ browser' = Opened(browser, "launched")
              /\ self_browser' = TRUE
              /\ launches' = launches + 1
              /\ rpc' = "new_context"
              /\ UNCHANGED <<slept, exc>>
         ELSE /\ launches' = launches + 1
              /\ IF launches < retries
                 THEN /\ slept' = Append(slept, Pow2(launches))
                      /\ UNCHANGED <<rpc, exc>>
                 ELSE /\ exc' = "Exception"
                      /\ rpc' = "finally"
                      /\ UNCHANGED slept
              /\ UNCHANGED <<browser, self_browser>>
    /\ UNCHANGED <<evars, event, visited, entry, discovery, bucket_name, urls, ui, attempt,
                   grouped_faqs, total_count, errors, self_context, ctx, pages, sc, failed,
                   response, s3_objects, metrics>>

\* scrape_all_categories, lines 157-159
ProdNewContext ==
    /\ rpc = "new_context"
    /\ \E ok \in BOOLEAN :
         IF ok
         THEN /\ ctx' = Opened(ctx, "created")
              /\ self_context' = TRUE
              /\ rpc' = "loop"
              /\ UNCHANGED exc
         ELSE /\ exc' = "PlaywrightError"
              /\ rpc' = "finally"
              /\ UNCHANGED <<ctx, self_context>>
    /\ UNCHANGED <<evars, event, visited, entry, discovery, bucket_name, urls, ui, attempt,
                   launches, slept, grouped_faqs, total_count, errors, self_browser, browser,
                   pages, sc, failed, response, s3_objects, metrics>>

\* lines 161-169: the head of the loop, and line 111 of scrape_single_category,
\* which raises on an entry that is no string; the loop catches it
ProdLoop ==
    /\ rpc = "loop"
    /\ IF ui > Len(urls)
       THEN /\ rpc' = "finally"
            /\ UNCHANGED <<ui, errors, attempt, sc, visited>>
       ELSE IF ~urls[ui].isstr
       THEN /\ errors' = Append(errors, [url |-> urls[ui], error |-> "AttributeError"])
            /\ ui' = ui + 1
            /\ UNCHANGED <<rpc, attempt, sc, visited>>
       ELSE /\ attempt' = 0
            /\ sc' = NoCategory
            /\ visited' = Append(visited, ui)
            /\ rpc' = "new_page"
            /\ UNCHANGED <<ui, errors>>
    /\ UNCHANGED <<evars, event, entry, discovery, bucket_name, urls, launches, slept,
                   grouped_faqs, total_count, self_browser, self_context, browser, ctx, pages,
                   failed, exc, response, s3_objects, metrics>>

\* a variant of AfterFailure that makes a new attempt after any exception
AfterFailure_RetriesAll(kind, att) ==
    IF att < max_retries THEN "retry" ELSE "empty"

\* lines 129-138: what the except clauses of scrape_single_category decide
AfterFailure(kind, att) ==
    IF kind = "Exception" THEN "empty"
    ELSE IF att < max_retries THEN "retry" ELSE "empty"

\* lines 113-117: page = None; page = self.context.new_page().  When it raises
\* there is no page to close and the except clause decides at once
ProdNewPage ==
    /\ rpc = "new_page"
    /\ \E out \in {"ok", "PlaywrightError"} :
         IF out = "ok"
         THEN /\ pages' = Opened(pages, "opened")
              /\ sc' = [sc EXCEPT !.page = TRUE]
              /\ rpc' = "goto"
              /\ UNCHANGED attempt
         ELSE /\ IF AfterFailure(out, attempt) = "retry"
                 THEN /\ sc' = [sc EXCEPT !.page = FALSE, !.error = out,
                                          !.slept = Append(@, Pow2(attempt))]
                      /\ attempt' = attempt + 1
                      /\ UNCHANGED rpc
                 ELSE /\ sc' = [sc EXCEPT !.page = FALSE, !.error = out, !.faq_data = <<>>,
                                          !.after = "empty"]
                      /\ rpc' = "record"
                      /\ UNCHANGED attempt
              /\ UNCHANGED pages
    /\ UNCHANGED <<evars, event, visited, entry, discovery, bucket_name, urls, ui, launches,
                   slept, grouped_faqs, total_count, errors, self_browser, self_context,
                   browser, ctx, failed, exc, response, s3_objects, metrics>>

\* a variant of ProdGoto in which the extraction function lets the timeout of its
\* wait for the page content go on to scrape_single_category
ProdGoto_ExtractionRaises ==
    /\ rpc = "goto"
    /\ \/ \E pg \in LoadedPages :
            sc' = IF pg.content
                  THEN [sc EXCEPT !.loaded = pg,
                                  !.method = get_extraction_method(category_id_of(urls[ui])),
                                  !.faq_data = extraction_method(category_id_of(urls[ui]), pg),
                                  !.after = "return", !.error = "none"]
                  ELSE [sc EXCEPT !.loaded = pg,
                                  !.method = get_extraction_method(category_id_of(urls[ui])),
                                  !.faq_data = <<>>,
                                  !.after = AfterFailure("TimeoutError", attempt),
                                  !.error = "TimeoutError"]
       \/ \E out \in {"TimeoutError", "PlaywrightError", "Exception"} :
            sc' = [sc EXCEPT !.faq_data = <<>>, !.after = AfterFailure(out, attempt),
                             !.error = out]
    /\ rpc' = "close_page"
    /\ UNCHANGED <<evars, event, visited, entry, discovery, bucket_name, urls, ui, attempt,
                   launches, slept, grouped_faqs, total_count, errors, self_browser,
                   self_context, browser, ctx, pages, failed, exc, response, s3_objects,
                   metrics>>

\* lines 120-138: the navigation, the settle delay and the extraction
ProdGoto ==
    /\ rpc = "goto"
    /\ \/ \E pg \in LoadedPages :
            sc' = [sc EXCEPT !.loaded = pg,
                             !.method = get_extraction_method(category_id_of(urls[ui])),
                             !.faq_data = extraction_method(category_id_of(urls[ui]), pg),
                             !.after = "return", !.error = "none"]
       \/ \E out \in {"TimeoutError", "PlaywrightError", "Exception"} :
            sc' = [sc EXCEPT !.faq_data = <<>>, !.after = AfterFailure(out, attempt),
                             !.error = out]
    /\ rpc' = "close_page"
    /\ UNCHANGED <<evars, event, visited, entry, discovery, bucket_name, urls, ui, attempt,
                   launches, slept, grouped_faqs, total_count, errors, self_browser,
                   self_context, browser, ctx, pages, failed, exc, response, s3_objects,
                   metrics>>

\* a variant of ProdClosePage that leaves the page of a failed attempt open when the
\* attempt is made again
ProdClosePage_KeepsOnRetry ==
    /\ rpc = "close_page"
    /\ pages' = IF sc.after = "retry" THEN pages ELSE CloseCalled(pages, TRUE)
    /\ IF sc.after = "retry"
       THEN /\ sc' = [sc EXCEPT !.page = FALSE, !.after = "none", !.slept = Append(@, Pow2(attempt))]
            /\ attempt' = attempt + 1
            /\ rpc' = "new_page"
       ELSE /\ sc' = [sc EXCEPT !.page = FALSE]
            /\ rpc' = "record"
            /\ UNCHANGED attempt
    /\ UNCHANGED <<evars, event, visited, entry, discovery, bucket_name, urls, ui, launches,
                   slept, grouped_faqs, total_count, errors, self_browser, self_context,
                   browser, ctx, failed, exc, response, s3_objects, metrics>>

\* lines 139-144: the finally clause; a failure of page.close() is swallowed and
\* changes nothing the run reads, so that the page counts as released.
\* Then the pause and the next attempt, or the return
ProdClosePage ==
    /\ rpc = "close_page"
    /\ pages' = CloseCalled(pages, TRUE)
    /\ IF sc.after = "retry"
       THEN /\ sc' = [sc EXCEPT !.page = FALSE, !.after = "none", !.slept = Append(@, Pow2(attempt))]
            /\ attempt' = attempt + 1
            /\ rpc' = "new_page"
       ELSE /\ sc' = [sc EXCEPT !.page = FALSE]
            /\ rpc' = "record"
            /\ UNCHANGED attempt
    /\ UNCHANGED <<evars, event, visited, entry, discovery, bucket_name, urls, ui, launches,
                   slept, grouped_faqs, total_count, errors, self_browser, self_context,
                   browser, ctx, failed, exc, response, s3_objects, metrics>>

\* a variant of ProdRecord that leaves a category without records out of the mapping
ProdRecord_SkipsEmpty ==
    /\ rpc = "record"
    /\ grouped_faqs' = IF sc.faq_data = <<>> THEN grouped_faqs
                       ELSE Put(grouped_faqs, category_name_of(urls[ui]), sc.faq_data)
    /\ total_count' = total_count + Len(sc.faq_data)
    /\ ui' = ui + 1
    /\ attempt' = 0
    /\ sc' = NoCategory
    /\ failed' = IF sc.after = "empty" THEN failed \cup {ui} ELSE failed
    /\ pages' = [pages EXCEPT !.opened = 0, !.close_calls = 0]
    /\ rpc' = "loop"
    /\ UNCHANGED <<evars, event, visited, entry, discovery, bucket_name, urls, launches, slept,
                   errors, self_browser, self_context, browser, ctx, exc, response, s3_objects,
                   metrics>>

\* lines 163-165: the pair returned by scrape_single_category is recorded; its
\* locals (and the page counts of the category) go out of scope
ProdRecord ==
    /\ rpc = "record"
    /\ grouped_faqs' = Put(grouped_faqs, category_name_of(urls[ui]), sc.faq_data)
    /\ total_count' = total_count + Len(sc.faq_data)
    /\ ui' = ui + 1
    /\ attempt' = 0
    /\ sc' = NoCategory
    /\ failed' = IF sc.after = "empty" THEN failed \cup {ui} ELSE failed
    /\ pages' = [pages EXCEPT !.opened = 0, !.close_calls = 0]
    /\ rpc' = "loop"
    /\ UNCHANGED <<evars, event, visited, entry, discovery, bucket_name, urls, launches, slept,
                   errors, self_browser, self_context, browser, ctx, exc, response, s3_objects,
                   metrics>>

\* lines 171-180: the finally clause.  A failure of context.close() skips
\* browser.close(); both are swallowed.  Then the return, or the exception
\* of create_browser or new_context goes on to the caller
ProdFinally ==
    /\ rpc = "finally"
    /\ \E cok \in BOOLEAN, bok \in BOOLEAN :
         /\ ctx' = IF self_context THEN CloseCalled(ctx, cok) ELSE ctx
         /\ browser' = IF self_browser /\ (~self_context \/ cok)
                       THEN CloseCalled(browser, bok) ELSE browser
    /\ rpc' = IF exc = "none"
              THEN (IF entry = "lambda_handler" THEN "put_object" ELSE "returned")
              ELSE (IF entry = "lambda_handler" THEN "except" ELSE "raised")
    /\ UNCHANGED <<evars, event, visited, entry, discovery, bucket_name, urls, ui, attempt,
                   launches, slept, grouped_faqs, total_count, errors, self_browser,
                   self_context, pages, sc, failed, exc, response, s3_objects, metrics>>

\* lines 182-210: a failure of put_metric_data is logged
publish_cloudwatch_metrics(m, ok, count, errors_count) ==
    IF ok THEN Append(m, [FAQsScraped |-> count, ErrorsCount |-> errors_count]) ELSE m

\* lines 260-278: the document is written to S3; a failure is logged and raised again
ProdPutObject ==
    /\ rpc = "put_object"
    /\ \E ok \in BOOLEAN :
         IF ok
         THEN /\ s3_objects' = s3_objects + 1
              /\ rpc' = "respond"
              /\ UNCHANGED exc
         ELSE /\ exc' = "S3Error"
              /\ rpc' = "except"
              /\ UNCHANGED s3_objects
    /\ UNCHANGED <<evars, event, visited, entry, discovery, bucket_name, urls, ui, attempt,
                   launches, slept, grouped_faqs, total_count, errors, self_browser,
                   self_context, browser, ctx, pages, sc, failed, response, metrics>>

\* a variant of ProdRespond in which a failure of the metrics sink is fatal
ProdRespond_MetricsFatal ==
    /\ rpc = "respond"
    /\ \E ok \in BOOLEAN :
         /\ metrics' = publish_cloudwatch_metrics(metrics, ok, total_count, Len(errors))
         /\ response' = IF ok
                        THEN [kind |-> "returned", statusCode |-> 200, count |-> total_count,
                              categories |-> Cardinality(DOMAIN grouped_faqs),
                              errors_count |-> Len(errors), errors_key |-> (errors # <<>>),
                              errors |-> errors, urls |-> urls]
                        ELSE [NoResponse EXCEPT !.kind = "returned", !.statusCode = 500]
    /\ rpc' = "done"
    /\ UNCHANGED <<evars, event, visited, entry, discovery, bucket_name, urls, ui, attempt,
                   launches, slept, grouped_faqs, total_count, errors, self_browser,
                   self_context, browser, ctx, pages, sc, failed, exc, s3_objects>>

\* lines 280-302: the metrics and the success response
ProdRespond ==
    /\ rpc = "respond"
    /\ \E ok \in BOOLEAN :
         metrics' = publish_cloudwatch_metrics(metrics, ok, total_count, Len(errors))
    /\ response' = [kind |-> "returned", statusCode |-> 200, count |-> total_count,
                    categories |-> Cardinality(DOMAIN grouped_faqs),
                    errors_count |-> Len(errors), errors_key |-> (errors # <<>>),
                    errors |-> errors, urls |-> urls]
    /\ rpc' = "done"
    /\ UNCHANGED <<evars, event, visited, entry, discovery, bucket_name, urls, ui, attempt,
                   launches, slept, grouped_faqs, total_count, errors, self_browser,
                   self_context, browser, ctx, pages, sc, failed, exc, s3_objects>>

\* lines 304-324: the except clause of lambda_handler
ProdExcept ==
    /\ rpc = "except"
    /\ \E ok \in BOOLEAN : metrics' = publish_cloudwatch_metrics(metrics, ok, 0, 1)
    /\ response' = [NoResponse EXCEPT !.kind = "returned", !.statusCode = 500]
    /\ rpc' = "done"
    /\ UNCHANGED <<evars, event, visited, entry, discovery, bucket_name, urls, ui, attempt,
                   launches, slept, grouped_faqs, total_count, errors, self_browser,
                   self_context, browser, ctx, pages, sc, failed, exc, s3_objects>>

ProdNext ==
    \/ ProdHandlerStart
    \/ ProdCreateBrowser
    \/ ProdNewContext
    \/ ProdLoop
    \/ ProdNewPage
    \/ ProdGoto
    \/ ProdClosePage
    \/ ProdRecord
    \/ ProdFinally
    \/ ProdPutObject
    \/ ProdRespond
    \/ ProdExcept

SpecProd == ProdInit /\ [][ProdNext]_vars

(***************************************************************************)
(* Claims on the extraction functions (specification Spec).                *)
(***************************************************************************)
Returned(f) == epc = "returned" /\ fn = f

\* the question node at position i is skipped: reading it fails, or reading one of
\* the nodes the loop over its siblings reaches (up to the next question node,
\* which is read too) fails
Skipped(pg, i) ==
    \/ pg.nodes[i].bad
    \/ \E j \in (i + 1)..Len(pg.nodes) :
         /\ pg.nodes[j].bad
         /\ \A m \in (i + 1)..(j - 1) : ~IsQuestion(pg.nodes[m])

\* the question nodes that are not skipped, in document order
Kept(pg) == SelectSeq(question_elements(pg), LAMBDA i : ~Skipped(pg, i))

\* a node that yields a fragment: an answer paragraph or a list with text
YieldsFragment(e) ==
    \/ e.tag = "p" /\ "card-text" \in e.cls /\ strip(e.text) # <<>>
    \/ /\ e.tag \in {"ul", "ol"}
       /\ \E k \in 1..Len(e.items) : strip(InnerTextLi(e.items[k])) # <<>>

\* some node between the question node at i and the next question node yields one
HasFragment(pg, i) ==
    \E j \in (i + 1)..Len(pg.nodes) :
        /\ YieldsFragment(pg.nodes[j])
        /\ \A m \in (i + 1)..j : ~IsQuestion(pg.nodes[m])

\* C1, as stated: a loaded page whose content container holds N question nodes
\* yields exactly N records, the i-th with the text of the i-th question node, a
\* question without answer fragment recorded with the empty answer
C1_ExactlyNRecords ==
    (Returned("faq_claim") /\ EntersLoop(page)) =>
        LET qs == question_elements(page) IN
        /\ Len(faq_data) = Len(qs)
        /\ \A i \in 1..Len(qs) :
             /\ faq_data[i].question = strip(page.nodes[qs[i]].text)
             /\ ~HasFragment(page, qs[i]) => faq_data[i].answer = <<>>

\* C1, amended: when the page content appeared, extract_faq_claim returns one
\* record per question node whose processing did not fail, in document order (so
\* exactly N when no element read fails), each with the trimmed text of its
\* question node, and with the empty answer exactly when no fragment was found;
\* when the page content did not appear in time it returns no record
C1_OneRecordPerProcessedQuestion ==
    Returned("faq_claim") =>
        IF EntersLoop(page)
        THEN LET kept == Kept(page) IN
             /\ Len(faq_data) = Len(kept)
             /\ \A k \in 1..Len(kept) :
                  /\ faq_data[k].question = strip(page.nodes[kept[k]].text)
                  /\ faq_data[k].answer = <<>> <=> ~HasFragment(page, kept[k])
             /\ (\A i \in 1..Len(page.nodes) : ~page.nodes[i].bad) =>
                  Len(faq_data) = Len(question_elements(page))
        ELSE faq_data = <<>>

\* C1, witness: two question nodes, the first answered, the second without any
\* fragment and recorded with the empty answer
C1_Witness ==
    /\ Returned("faq_claim")
    /\ EntersLoop(page)
    /\ Len(question_elements(page)) = 2
    /\ Len(faq_data) = 2
    /\ faq_data[1].answer # <<>>
    /\ faq_data[2].answer = <<>>

\* C2, as stated: every record an extraction function returns has a question that
\* is not empty after trimming
C2_QuestionsNonEmpty ==
    epc = "returned" => \A i \in 1..Len(faq_data) : strip(faq_data[i].question) # <<>>

(***************************************************************************)
(* Claims on the run of prod-scraper (specification SpecProd).             *)
(***************************************************************************)
\* every entry of the list of URLs is a string
AllStrings == \A k \in 1..Len(urls) : urls[k].isstr

\* scrape_all_categories has just returned (to its caller, or to lambda_handler)
Completed == rpc \in {"returned", "put_object"}

\* the finally clause of scrape_all_categories is over
RunOver == rpc \in {"returned", "raised", "put_object", "respond", "except", "done"}

\* lambda_handler is over
HandlerOver == entry = "lambda_handler" /\ rpc = "done"

\* the sum of the lengths of the record sequences of a mapping
RECURSIVE SumOfLengths(_)
SumOfLengths(d) ==
    IF DOMAIN d = {} THEN 0
    ELSE LET k == CHOOSE x \in DOMAIN d : TRUE
         IN Len(d[k]) + SumOfLengths([x \in (DOMAIN d) \ {k} |-> d[x]])

\* C3, as stated: the mapping returned holds one entry per requested URL, as many
\* keys as URLs, and a URL whose page failed to load has its key with the empty
\* sequence
C3_OneEntryPerUrl ==
    (Completed /\ AllStrings) =>
        /\ Cardinality(DOMAIN grouped_faqs) = Len(urls)
        /\ \A k \in 1..Len(urls) :
             /\ category_name_of(urls[k]) \in DOMAIN grouped_faqs
             /\ k \in failed => grouped_faqs[category_name_of(urls[k])] = <<>>

\* the positions of the entries of urls that are strings
StringEntries == {k \in 1..Len(urls) : urls[k].isstr}

\* the last position, among the strings of urls, of the category name of urls[k]
LastOfItsName(k) ==
    \A j \in StringEntries : j > k => category_name_of(urls[j]) # category_name_of(urls[k])

\* C3, amended: the mapping returned holds one entry per category name of the
\* requested URLs (the anchor of a URL cut off), so as many keys as URLs when
\* their category names differ from one another; a URL whose page failed to load
\* has its key present, with the empty sequence unless a later URL of the list
\* has the same category name
C3_OneEntryPerCategoryName ==
    Completed =>
        /\ DOMAIN grouped_faqs = {category_name_of(urls[k]) : k \in StringEntries}
        /\ (\A j, k \in StringEntries :
                j # k => category_name_of(urls[j]) # category_name_of(urls[k]))
              => Cardinality(DOMAIN grouped_faqs) = Cardinality(StringEntries)
        /\ \A k \in StringEntries :
              (k \in failed /\ LastOfItsName(k)) =>
                  grouped_faqs[category_name_of(urls[k])] = <<>>

\* C3, witness: two URLs of different categories, the page of the first failed
\* to load and its key is present with the empty sequence, the second has records
C3_Witness ==
    /\ Completed
    /\ Len(urls) = 2
    /\ AllStrings
    /\ failed = {1}
    /\ Cardinality(DOMAIN grouped_faqs) = 2
    /\ grouped_faqs[category_name_of(urls[1])] = <<>>
    /\ grouped_faqs[category_name_of(urls[2])] # <<>>

\* C4, as stated: the total count returned, and reported, is the sum of the lengths
\* of the record sequences of the mapping returned
C4_CountIsSum ==
    /\ (Completed /\ AllStrings) => total_count = SumOfLengths(grouped_faqs)
    /\ (HandlerOver /\ response.statusCode = 200) => response.count = SumOfLengths(grouped_faqs)

\* C5, as stated: when the navigation of a category has failed for good, the
\* category is recorded with the empty sequence, an error string is appended to
\* the error list, and the loop goes on to the next URL
C5_NavigationFailureRecorded ==
    [][(rpc = "record" /\ sc.error \in {"TimeoutError", "PlaywrightError"}) =>
          /\ category_name_of(urls[ui]) \in DOMAIN grouped_faqs'
          /\ grouped_faqs'[category_name_of(urls[ui])] = <<>>
          /\ Len(errors') = Len(errors) + 1
          /\ ui' = ui + 1
          /\ rpc' = "loop"]_vars

\* C6, as stated: every invocation of lambda_handler ends with a structured
\* response of status code 200 or 500, and no exception escapes
C6_AlwaysStructuredResponse ==
    HandlerOver => response.kind = "returned" /\ response.statusCode \in {200, 500}

\* lambda_handler is over and scrape_all_categories had returned to it
ScrapeSucceeded == HandlerOver /\ response.kind = "returned" /\ exc \in {"none", "S3Error"}

C8_ClosedExactlyOnce ==
    (RunOver /\ browser.launched > 0) =>
        /\ browser.close_calls = 1
        /\ ctx.created > 0 => ctx.close_calls = 1

\* C9, as stated: when some categories failed to load, the browser having been
\* launched and nothing else having failed, the response is the success response,
\* the failed categories are empty entries, and the error list is not empty and
\* is part of the output
C9_PartialFailureReported ==
    (HandlerOver /\ browser.launched > 0 /\ failed # {} /\ exc = "none") =>
        /\ response.kind = "returned"
        /\ response.statusCode = 200
        /\ \A k \in failed : grouped_faqs[category_name_of(urls[k])] = <<>>
        /\ response.errors_key
        /\ response.errors # <<>>

(***************************************************************************)
(* Playwright/lambda_function.py: lambda_handler, with the discovery of    *)
(* the category URLs and the extraction written inline.                    *)
(***************************************************************************)
\* line 229: page.query_selector_all('.card-body h6.card-title')
PW_question_elements(pg) == IF pg.card THEN Positions(pg.nodes, 1, "h6") ELSE <<>>

\* lines 242-255: evaluate_handle returns the handle of a JavaScript array, which
\* is no element: as_element() is None and the loop runs over "siblings or []"
PW_siblings(pg, i) == <<>>

\* lines 281-289: the fallback, every p.card-text of the card body with text
RECURSIVE PW_all_p(_)
PW_all_p(nodes) ==
    IF nodes = <<>> THEN <<>>
    ELSE (IF Head(nodes).tag = "p" /\ "card-text" \in Head(nodes).cls
             /\ strip(Head(nodes).text) # <<>>
          THEN <<strip(Head(nodes).text)>> ELSE <<>>) \o PW_all_p(Tail(nodes))

\* the prefix of an unordered item, and the indent of a nested one
Dash == <<"-", " ">>
Indent == <<" ", " ">>

PW_prefix(tag, parts) == IF tag = "ol" THEN str(Len(parts) + 1) \o <<".", " ">> ELSE Dash

\* lines 275-279: the items of a list nested in an item
RECURSIVE PW_AppendNested(_, _, _)
PW_AppendNested(tag, texts, parts) ==
    IF texts = <<>> THEN parts
    ELSE PW_AppendNested(tag, Tail(texts),
             Append(parts, Indent \o PW_prefix(tag, parts) \o strip(Head(texts))))

\* lines 265-279: sibling.query_selector_all('li') holds the nested items too, after
\* the item they are nested in; an item is appended whether or not it has text
RECURSIVE PW_AppendItems(_, _, _)
PW_AppendItems(tag, items, parts) ==
    IF items = <<>> THEN parts
    ELSE LET item == Head(items)
             own == Append(parts, PW_prefix(tag, parts) \o strip(InnerTextLi(item)))
             nested == PW_AppendNested(item.subtag, item.sub, own)
             plain == [k \in 1..Len(item.sub) |-> Li(item.sub[k], "", <<>>)]
         IN PW_AppendItems(tag, Tail(items), PW_AppendItems(tag, plain, nested))

\* lines 255-279: the loop over the siblings; get_attribute('class', '') has one
\* argument too many and raises when the sibling is a paragraph
RECURSIVE PW_SiblingPass(_, _, _)
PW_SiblingPass(sibs, k, parts) ==
    IF k > Len(sibs) THEN [raised |-> FALSE, parts |-> parts]
    ELSE LET sibling == sibs[k] IN
         IF sibling.bad \/ sibling.tag = "p" THEN [raised |-> TRUE, parts |-> parts]
         ELSE IF sibling.tag \in {"ul", "ol"}
              THEN PW_SiblingPass(sibs, k + 1, PW_AppendItems(sibling.tag, sibling.items, parts))
         ELSE PW_SiblingPass(sibs, k + 1, parts)

\* lines 237-302: the body of the loop for the question node at position i
PW_QuestionBody(pg, i) ==
    LET q_elem == pg.nodes[i] IN
    IF q_elem.bad THEN <<>>
    ELSE LET question_text == strip(q_elem.text)
             got == PW_SiblingPass(PW_siblings(pg, i), 1, <<>>)
             answer_text == IF got.parts = <<>> THEN PW_all_p(pg.nodes) ELSE got.parts
         IN IF got.raised THEN <<>>
            ELSE IF answer_text # <<>>
                 THEN <<FaqRecord(question_text, join(<<"\n">>, answer_text))>>
                 ELSE <<>>

RECURSIVE PW_Loop(_, _, _)
PW_Loop(pg, elems, k) ==
    IF k > Len(elems) THEN <<>>
    ELSE PW_QuestionBody(pg, elems[k]) \o PW_Loop(pg, elems, k + 1)

\* lines 223-304: the records of a loaded page; the wait for h6.card-title times
\* out on a page without question node, and the category is recorded empty
PW_faq_data(pg) == PW_Loop(pg, PW_question_elements(pg), 1)

\* lines 217-218: the anchor is not cut off here
PW_category_name(url) ==
    LET category_id == LastField(url.s, "/") IN
    IF category_id \in CategoryIds THEN CATEGORY_MAPPING(category_id)
    ELSE title(Dashless(category_id))

\* lines 199-200: the URLs made of the links of the navigation menu
NavUrls == DefaultUrls

\* the event: no urls (or an empty list), or a list of URLs
PWInit ==
    /\ ExtractIdle
    /\ entry = "lambda_handler"
    /\ discovery = "none"
    /\ bucket_name = FALSE
    /\ event \in UrlLists
    /\ visited = <<>>
    /\ urls = <<>>
    /\ rpc = "pw_start"
    /\ ui = 1
    /\ attempt = 0
    /\ launches = 0
    /\ slept = <<>>
    /\ grouped_faqs = <<>>
    /\ total_count = 0
    /\ errors = <<>>
    /\ self_browser = FALSE
    /\ self_context = FALSE
    /\ browser = [open |-> 0, launched |-> 0, close_calls |-> 0]
    /\ ctx = [open |-> 0, created |-> 0, close_calls |-> 0]
    /\ pages = [open |-> 0, opened |-> 0, close_calls |-> 0]
    /\ sc = NoCategory
    /\ failed = {}
    /\ exc = "none"
    /\ response = NoResponse
    /\ s3_objects = 0
    /\ metrics = <<>>

\* lines 184-188: urls = event.get("urls", [])
PWStart ==
    /\ rpc = "pw_start"
    /\ urls' = event
    /\ rpc' = IF event = <<>> THEN "pw_disc_launch" ELSE "pw_launch"
    /\ UNCHANGED <<evars, event, visited, entry, discovery, bucket_name, ui, attempt, launches,
                   slept, grouped_faqs, total_count, errors, self_browser, self_context,
                   browser, ctx, pages, sc, failed, exc, response, s3_objects, metrics>>

\* create_browser, lines 138-165: one attempt of the loop, for the discovery
\* (line 188) or for the scrape (line 209)
PWCreateBrowser ==
    /\ rpc \in {"pw_disc_launch", "pw_launch"}
    /\ \E ok \in BOOLEAN :
         IF ok
         THEN /\ browser' = Opened(browser, "launched")
              /\ launches' = 0
              /\ rpc' = IF rpc = "pw_disc_launch" THEN "pw_discover" ELSE "pw_context"
              /\ UNCHANGED <<slept, exc>>
         ELSE /\ IF launches < retries
                 THEN /\ slept' = Append(slept, 1)
                      /\ launches' = launches + 1
                      /\ UNCHANGED <<rpc, exc>>
                 ELSE /\ exc' = "Exception"
                      /\ rpc' = "pw_except"
                      /\ UNCHANGED <<slept, launches>>
              /\ UNCHANGED browser
    /\ UNCHANGED <<evars, event, visited, entry, discovery, bucket_name, urls, ui, attempt,
                   grouped_faqs, total_count, errors, self_browser, self_context, ctx, pages,
                   sc, failed, response, s3_objects, metrics>>

\* lines 189-205: the context and the page of the discovery, the navigation to the
\* entry page, the links of the menu, and the finally clause.  An exception goes
\* to the except clause of line 342: there is no fallback list
PWDiscover ==
    /\ rpc = "pw_discover"
    /\ \E out \in {"no_context", "failed", "empty", "found"}, cok \in BOOLEAN, bok \in BOOLEAN :
         IF out = "no_context"
         THEN /\ discovery' = "failed"
              /\ exc' = "PlaywrightError"
              /\ rpc' = "pw_except"
              /\ UNCHANGED <<urls, ctx, browser, slept>>
         ELSE /\ discovery' = out
              /\ urls' = IF out = "found" THEN NavUrls ELSE <<>>
              /\ ctx' = CloseCalled(Opened(ctx, "created"), cok)
              /\ browser' = IF cok THEN CloseCalled(browser, bok) ELSE browser
              /\ exc' = IF out = "failed" THEN "TimeoutError"
                        ELSE IF cok /\ bok THEN "none" ELSE "PlaywrightError"
              /\ rpc' = IF out = "failed" \/ ~cok \/ ~bok THEN "pw_except" ELSE "pw_launch"
              /\ slept' = <<>>
    /\ UNCHANGED <<evars, event, visited, entry, bucket_name, ui, attempt, launches,
                   grouped_faqs, total_count, errors, self_browser, self_context, pages, sc,
                   failed, response, s3_objects, metrics>>

\* lines 210-211
PWNewContext ==
    /\ rpc = "pw_context"
    /\ \E ok \in BOOLEAN :
         IF ok
         THEN /\ ctx' = Opened(ctx, "created")
              /\ rpc' = "pw_loop"
              /\ UNCHANGED exc
         ELSE /\ exc' = "PlaywrightError"
              /\ rpc' = "pw_except"
              /\ UNCHANGED ctx
    /\ UNCHANGED <<evars, event, visited, entry, discovery, bucket_name, urls, ui, attempt,
                   launches, slept, grouped_faqs, total_count, errors, self_browser,
                   self_context, browser, pages, sc, failed, response, s3_objects, metrics>>

\* lines 213-214: the head of the loop and the page of the category
PWLoop ==
    /\ rpc = "pw_loop"
    /\ IF ui > Len(urls)
       THEN /\ rpc' = "pw_close"
            /\ UNCHANGED <<pages, exc, visited>>
       ELSE \E ok \in BOOLEAN :
              IF ok
              THEN /\ pages' = Opened(pages, "opened")
                   /\ visited' = Append(visited, ui)
                   /\ rpc' = "pw_scrape"
                   /\ UNCHANGED exc
              ELSE /\ exc' = "PlaywrightError"
                   /\ rpc' = "pw_except"
                   /\ UNCHANGED <<pages, visited>>
    /\ UNCHANGED <<evars, event, entry, discovery, bucket_name, urls, ui, attempt, launches,
                   slept, grouped_faqs, total_count, errors, self_browser, self_context,
                   browser, ctx, sc, failed, response, s3_objects, metrics>>

\* lines 215-310: the try of one category.  An entry that is no string raises at
\* line 217, and an exception that is no Playwright error is not caught here
PWScrape ==
    /\ rpc = "pw_scrape"
    /\ IF ~urls[ui].isstr
       THEN /\ sc' = [sc EXCEPT !.after = "raise", !.error = "AttributeError"]
            /\ UNCHANGED <<grouped_faqs, total_count>>
       ELSE \/ \E pg \in RunPages :
                 /\ grouped_faqs' = Put(grouped_faqs, PW_category_name(urls[ui]), PW_faq_data(pg))
                 /\ total_count' = total_count + Len(PW_faq_data(pg))
                 /\ sc' = [sc EXCEPT !.after = "next", !.error = "none"]
            \/ \E out \in {"TimeoutError", "PlaywrightError"} :
                 /\ grouped_faqs' = Put(grouped_faqs, PW_category_name(urls[ui]), <<>>)
                 /\ sc' = [sc EXCEPT !.after = "next", !.error = out]
                 /\ UNCHANGED total_count
            \/ /\ sc' = [sc EXCEPT !.after = "raise", !.error = "Exception"]
               /\ UNCHANGED <<grouped_faqs, total_count>>
    /\ rpc' = "pw_close_page"
    /\ UNCHANGED <<evars, event, visited, entry, discovery, bucket_name, urls, ui, attempt,
                   launches, slept, errors, self_browser, self_context, browser, ctx, pages,
                   failed, exc, response, s3_objects, metrics>>

\* lines 311-312: the finally clause of the category
PWClosePage ==
    /\ rpc = "pw_close_page"
    /\ pages' = [CloseCalled(pages, TRUE) EXCEPT !.opened = 0, !.close_calls = 0]
    /\ IF sc.after = "raise"
       THEN /\ exc' = sc.error
            /\ rpc' = "pw_except"
            /\ UNCHANGED ui
       ELSE /\ ui' = ui + 1
            /\ rpc' = "pw_loop"
            /\ UNCHANGED exc
    /\ sc' = NoCategory
    /\ UNCHANGED <<evars, event, visited, entry, discovery, bucket_name, urls, attempt,
                   launches, slept, grouped_faqs, total_count, errors, self_browser,
                   self_context, browser, ctx, failed, response, s3_objects, metrics>>

\* lines 314-315: after the loop, outside any finally clause
PWClose ==
    /\ rpc = "pw_close"
    /\ \E cok \in BOOLEAN, bok \in BOOLEAN :
         /\ ctx' = CloseCalled(ctx, cok)
         /\ browser' = IF cok THEN CloseCalled(browser, bok) ELSE browser
         /\ exc' = IF cok /\ bok THEN "none" ELSE "PlaywrightError"
         /\ rpc' = IF cok /\ bok THEN "pw_respond" ELSE "pw_except"
    /\ UNCHANGED <<evars, event, visited, entry, discovery, bucket_name, urls, ui, attempt,
                   launches, slept, grouped_faqs, total_count, errors, self_browser,
                   self_context, pages, sc, failed, response, s3_objects, metrics>>

\* lines 317-340: the success response
PWRespond ==
    /\ rpc = "pw_respond"
    /\ response' = [NoResponse EXCEPT !.kind = "returned", !.statusCode = 200,
                                      !.count = total_count,
                                      !.categories = Cardinality(DOMAIN grouped_faqs),
                                      !.urls = urls]
    /\ rpc' = "done"
    /\ UNCHANGED <<evars, event, visited, entry, discovery, bucket_name, urls, ui, attempt,
                   launches, slept, grouped_faqs, total_count, errors, self_browser,
                   self_context, browser, ctx, pages, sc, failed, exc, s3_objects, metrics>>

\* lines 342-365: the except clause, the failure response
PWExcept ==
    /\ rpc = "pw_except"
    /\ response' = [NoResponse EXCEPT !.kind = "returned", !.statusCode = 500, !.urls = urls]
    /\ rpc' = "done"
    /\ UNCHANGED <<evars, event, visited, entry, discovery, bucket_name, urls, ui, attempt,
                   launches, slept, grouped_faqs, total_count, errors, self_browser,
                   self_context, browser, ctx, pages, sc, failed, exc, s3_objects, metrics>>

PWNext ==
    \/ PWStart
    \/ PWCreateBrowser
    \/ PWDiscover
    \/ PWNewContext
    \/ PWLoop
    \/ PWScrape
    \/ PWClosePage
    \/ PWClose
    \/ PWRespond
    \/ PWExcept

SpecPW == PWInit /\ [][PWNext]_vars

(***************************************************************************)
(* Claims on the run of Playwright/lambda_function.py (specification       *)
(* SpecPW).                                                                *)
(***************************************************************************)
\* C10, as stated: when no URLs are provided and the discovery fails or yields no
\* URL, the URLs of the run are exactly the six hardcoded category URLs (the
\* response names the URLs of the run)
C10_FallbackToDefaults ==
    (rpc = "done" /\ discovery \in {"failed", "empty"}) => response.urls = DefaultUrls
(***************************************************************************)
(* Claims on the URLs of a run (specifications SpecProd and SpecPW).       *)
(***************************************************************************)
\* the URLs whose scrape was begun, in the order in which they were begun
ScrapedUrls == [k \in 1..Len(visited) |-> urls[visited[k]]]

IsPrefix(a, b) == Len(a) <= Len(b) /\ \A k \in 1..Len(a) : a[k] = b[k]

\* C11, as stated: when the event supplies a non-empty urls sequence, no discovery
\* takes place and the URLs scraped are those of the event, in their order (all of
\* them once the handler has answered with success); the discovery runs only when
\* the event has no urls
C11_ExplicitUrlsVerbatim ==
    /\ event # <<>> =>
          /\ discovery = "none"
          /\ IsPrefix(ScrapedUrls, event)
          /\ (HandlerOver /\ response.statusCode = 200) => ScrapedUrls = event
    /\ discovery # "none" => event = <<>>
(***************************************************************************)
(* new-playwright/lambda_function.py: a run.  No attempt of a category is  *)
(* made twice, the page is made outside the try, and neither the finally   *)
(* clause of scrape_all_categories nor lambda_handler catches anything.    *)
(***************************************************************************)
NewInit ==
    /\ ExtractIdle
    /\ entry \in {"lambda_handler", "scrape_all_categories"}
    /\ event = <<>>
    /\ visited = <<>>
    /\ discovery = "none"
    /\ bucket_name = FALSE
    /\ urls \in (IF entry = "lambda_handler" THEN {<<>>} ELSE UrlLists)
    /\ rpc = (IF entry = "lambda_handler" THEN "new_handler" ELSE "new_launch")
    /\ ui = 1
    /\ attempt = 0
    /\ launches = 0
    /\ slept = <<>>
    /\ grouped_faqs = <<>>
    /\ total_count = 0
    /\ errors = <<>>
    /\ self_browser = FALSE
    /\ self_context = FALSE
    /\ browser = [open |-> 0, launched |-> 0, close_calls |-> 0]
    /\ ctx = [open |-> 0, created |-> 0, close_calls |-> 0]
    /\ pages = [open |-> 0, opened |-> 0, close_calls |-> 0]
    /\ sc = NoCategory
    /\ failed = {}
    /\ exc = "none"
    /\ response = NoResponse
    /\ s3_objects = 0
    /\ metrics = <<>>

\* lambda_handler, lines 209-213
NewHandlerStart ==
    /\ rpc = "new_handler"
    /\ urls' = DefaultUrls
    /\ rpc' = "new_launch"
    /\ UNCHANGED <<evars, event, visited, entry, discovery, bucket_name, ui, attempt, launches,
                   slept, grouped_faqs, total_count, errors, self_browser, self_context,
                   browser, ctx, pages, sc, failed, exc, response, s3_objects, metrics>>

\* create_browser, lines 56-90: one attempt of the loop; the pause is one second
NewCreateBrowser ==
    /\ rpc = "new_launch"
    /\ \E ok \in BOOLEAN :
         IF ok
         THEN /\ browser' = Opened(browser, "launched")
              /\ self_browser' = TRUE
              /\ launches' = launches + 1
              /\ rpc' = "new_context"
              /\ UNCHANGED <<slept, exc>>
         ELSE /\ launches' = launches + 1
              /\ IF launches < retries
                 THEN /\ slept' = Append(slept, 1)
                      /\ UNCHANGED <<rpc, exc>>
                 ELSE /\ exc' = "Exception"
                      /\ rpc' = "new_end"
                      /\ UNCHANGED slept
              /\ UNCHANGED <<browser, self_browser>>
    /\ UNCHANGED <<evars, event, visited, entry, discovery, bucket_name, urls, ui, attempt,
                   grouped_faqs, total_count, errors, self_context, ctx, pages, sc, failed,
                   response, s3_objects, metrics>>

\* line 184, before the try: a failure leaves the browser to the exit of the
\* with block
NewNewContext ==
    /\ rpc = "new_context"
    /\ \E ok \in BOOLEAN :
         IF ok
         THEN /\ ctx' = Opened(ctx, "created")
              /\ self_context' = TRUE
              /\ rpc' = "new_loop"
              /\ UNCHANGED exc
         ELSE /\ exc' = "PlaywrightError"
              /\ rpc' = "new_end"
              /\ UNCHANGED <<ctx, self_context>>
    /\ UNCHANGED <<evars, event, visited, entry, discovery, bucket_name, urls, ui, attempt,
                   launches, slept, grouped_faqs, total_count, errors, self_browser, browser,
                   pages, sc, failed, response, s3_objects, metrics>>

\* lines 187-188 and 137-138: the head of the loop, the category of the URL (an
\* entry that is no string raises) and the page, made before the try
NewLoop ==
    /\ rpc = "new_loop"
    /\ IF ui > Len(urls)
       THEN /\ rpc' = "new_finally"
            /\ UNCHANGED <<pages, sc, visited, exc>>
       ELSE IF ~urls[ui].isstr
       THEN /\ exc' = "AttributeError"
            /\ rpc' = "new_finally"
            /\ UNCHANGED <<pages, sc, visited>>
       ELSE \E ok \in BOOLEAN :
              IF ok
              THEN /\ pages' = Opened(pages, "opened")
                   /\ sc' = [NoCategory EXCEPT !.page = TRUE]
                   /\ visited' = Append(visited, ui)
                   /\ rpc' = "new_scrape"
                   /\ UNCHANGED exc
              ELSE /\ exc' = "PlaywrightError"
                   /\ rpc' = "new_finally"
                   /\ UNCHANGED <<pages, sc, visited>>
    /\ UNCHANGED <<evars, event, entry, discovery, bucket_name, urls, ui, attempt, launches,
                   slept, grouped_faqs, total_count, errors, self_browser, self_context,
                   browser, ctx, failed, response, s3_objects, metrics>>

\* lines 140-164: the navigation, the settle delay and the extraction; every
\* exception ends the category with no record
NewScrape ==
    /\ rpc = "new_scrape"
    /\ \/ \E pg \in LoadedPages :
            sc' = [sc EXCEPT !.loaded = pg,
                             !.method = get_extraction_method(category_id_of(urls[ui])),
                             !.faq_data = extraction_method(category_id_of(urls[ui]), pg),
                             !.after = "return", !.error = "none"]
       \/ \E out \in {"TimeoutError", "PlaywrightError", "Exception"} :
            sc' = [sc EXCEPT !.faq_data = <<>>, !.after = "empty", !.error = out]
    /\ rpc' = "new_close_page"
    /\ UNCHANGED <<evars, event, visited, entry, discovery, bucket_name, urls, ui, attempt,
                   launches, slept, grouped_faqs, total_count, errors, self_browser,
                   self_context, browser, ctx, pages, failed, exc, response, s3_objects,
                   metrics>>

\* a variant of NewClosePage that records no category whose page failed
NewClosePage_DropsFailed ==
    /\ rpc = "new_close_page"
    /\ pages' = [CloseCalled(pages, TRUE) EXCEPT !.opened = 0, !.close_calls = 0]
    /\ sc' = NoCategory
    /\ \E ok \in BOOLEAN :
         IF ok
         THEN /\ grouped_faqs' = IF sc.after = "empty" THEN grouped_faqs
                                 ELSE Put(grouped_faqs, category_name_of(urls[ui]), sc.faq_data)
              /\ total_count' = total_count + Len(sc.faq_data)
              /\ failed' = IF sc.after = "empty" THEN failed \cup {ui} ELSE failed
              /\ ui' = ui + 1
              /\ rpc' = "new_loop"
              /\ UNCHANGED exc
         ELSE /\ exc' = "PlaywrightError"
              /\ rpc' = "new_finally"
              /\ UNCHANGED <<grouped_faqs, total_count, failed, ui>>
    /\ UNCHANGED <<evars, event, visited, entry, discovery, bucket_name, urls, attempt,
                   launches, slept, errors, self_browser, self_context, browser, ctx,
                   response, s3_objects, metrics>>

\* lines 166-167 and 189-190: the finally clause closes the page; when close()
\* raises, its exception takes the place of the return.  Else the pair returned is
\* recorded
NewClosePage ==
    /\ rpc = "new_close_page"
    /\ pages' = [CloseCalled(pages, TRUE) EXCEPT !.opened = 0, !.close_calls = 0]
    /\ sc' = NoCategory
    /\ \E ok \in BOOLEAN :
         IF ok
         THEN /\ grouped_faqs' = Put(grouped_faqs, category_name_of(urls[ui]), sc.faq_data)
              /\ total_count' = total_count + Len(sc.faq_data)
              /\ failed' = IF sc.after = "empty" THEN failed \cup {ui} ELSE failed
              /\ ui' = ui + 1
              /\ rpc' = "new_loop"
              /\ UNCHANGED exc
         ELSE /\ exc' = "PlaywrightError"
              /\ rpc' = "new_finally"
              /\ UNCHANGED <<grouped_faqs, total_count, failed, ui>>
    /\ UNCHANGED <<evars, event, visited, entry, discovery, bucket_name, urls, attempt,
                   launches, slept, errors, self_browser, self_context, browser, ctx,
                   response, s3_objects, metrics>>

\* lines 192-194: the finally clause; a failure of context.close() skips
\* browser.close(), and a failure of either goes on to the caller
NewFinally ==
    /\ rpc = "new_finally"
    /\ \E cok \in BOOLEAN, bok \in BOOLEAN :
         /\ ctx' = CloseCalled(ctx, cok)
         /\ browser' = IF cok THEN CloseCalled(browser, bok) ELSE browser
         /\ exc' = IF cok /\ bok THEN exc ELSE "PlaywrightError"
    /\ rpc' = "new_end"
    /\ UNCHANGED <<evars, event, visited, entry, discovery, bucket_name, urls, ui, attempt,
                   launches, slept, grouped_faqs, total_count, errors, self_browser,
                   self_context, pages, sc, failed, response, s3_objects, metrics>>

\* lines 196 and 213-221: the return of scrape_all_categories and the response
\* of lambda_handler, or the exception, which nothing catches
NewEnd ==
    /\ rpc = "new_end"
    /\ IF entry = "lambda_handler"
       THEN /\ response' = IF exc = "none"
                           THEN [NoResponse EXCEPT !.kind = "returned", !.statusCode = 200,
                                                   !.count = total_count,
                                                   !.categories = Cardinality(DOMAIN grouped_faqs)]
                           ELSE [NoResponse EXCEPT !.kind = "raised"]
            /\ rpc' = "done"
       ELSE /\ rpc' = IF exc = "none" THEN "returned" ELSE "raised"
            /\ UNCHANGED response
    /\ UNCHANGED <<evars, event, visited, entry, discovery, bucket_name, urls, ui, attempt,
                   launches, slept, grouped_faqs, total_count, errors, self_browser,
                   self_context, browser, ctx, pages, sc, failed, exc, s3_objects, metrics>>

NewNext ==
    \/ NewHandlerStart
    \/ NewCreateBrowser
    \/ NewNewContext
    \/ NewLoop
    \/ NewScrape
    \/ NewClosePage
    \/ NewFinally
    \/ NewEnd

SpecNew == NewInit /\ [][NewNext]_vars
(***************************************************************************)
(* Claims on the runs over the default URLs (specifications SpecNew and    *)
(* SpecProd).                                                              *)
(***************************************************************************)
\* the display names of the fixed category table
DisplayNames == {CATEGORY_MAPPING(id) : id \in CategoryIds}

\* C12: a run over the six default category URLs that ends with a result mapping
\* has exactly six keys in it, the display names of the category table (General,
\* Claiming Property, Evidence, Reporting Property, Fee Finder, Useful Links),
\* whichever categories failed during the run
C12_SixDisplayNames ==
    (HandlerOver /\ response.statusCode = 200 /\ urls = DefaultUrls) =>
        /\ DOMAIN grouped_faqs = DisplayNames
        /\ Cardinality(DOMAIN grouped_faqs) = 6
        /\ response.categories = 6
        /\ DisplayNames =
              {<<"General">>, <<"Claiming", " ", "Property">>, <<"Evidence">>,
               <<"Reporting", " ", "Property">>, <<"Fee", " ", "Finder">>,
               <<"Useful", " ", "Links">>}

\* C12, witness: such a run in which the first two categories failed and the last
\* one has records
C12_Witness ==
    /\ HandlerOver
    /\ response.statusCode = 200
    /\ urls = DefaultUrls
    /\ failed = {1, 2}
    /\ grouped_faqs[<<"General">>] = <<>>
    /\ grouped_faqs[<<"Useful", " ", "Links">>] # <<>>
    /\ Cardinality(DOMAIN grouped_faqs) = 6
(***************************************************************************)
(* Playwright/lambda_function.py: the extraction written inline in         *)
(* lambda_handler (lines 223-306), on one loaded page.                     *)
(***************************************************************************)
\* lines 223-234: the wait for an attached h6.card-title times out on a page
\* without one, and the category has no record
PWExtractBegin ==
    /\ epc = "idle"
    /\ fn' = "pw_inline"
    /\ faq_data' = <<>>
    /\ qi' = 1
    /\ epc' = IF PW_question_elements(page) # <<>> THEN "loop" ELSE "returned"
    /\ UNCHANGED <<page, rvars>>

\* one iteration of the loop of lines 236-302
PWProcessQuestion ==
    /\ epc = "loop"
    /\ fn = "pw_inline"
    /\ qi <= Len(PW_question_elements(page))
    /\ faq_data' = faq_data \o PW_QuestionBody(page, PW_question_elements(page)[qi])
    /\ qi' = qi + 1
    /\ UNCHANGED <<page, fn, epc, rvars>>

\* line 304
PWExtractReturn ==
    /\ epc = "loop"
    /\ fn = "pw_inline"
    /\ qi > Len(PW_question_elements(page))
    /\ epc' = "returned"
    /\ UNCHANGED <<page, fn, qi, faq_data, rvars>>

\* one call of the extraction of questions and answers of either implementation
AssemblyNext ==
    \/ ExtractBegin
    \/ ProcessQuestion
    \/ ProcessLink
    \/ ExtractReturn
    \/ PWExtractBegin
    \/ PWProcessQuestion
    \/ PWExtractReturn

SpecAssembly == ExtractInit /\ [][AssemblyNext]_vars
(***************************************************************************)
(* Claims on the answer assembly (specifications Spec and SpecAssembly).   *)
(***************************************************************************)
\* the extraction of questions and answers has returned
AssemblyDone == epc = "returned" /\ fn \in {"faq_claim", "pw_inline"}

\* the mark of an unordered item and the separator of the fragments of an answer
UnorderedMark(f) == IF f = "pw_inline" THEN Dash ELSE Bullet
FragmentSep(f) == IF f = "pw_inline" THEN <<"\n">> ELSE <<"\n", "\n">>

\* no item of the list has a list nested in it
Flat(list) == \A k \in 1..Len(list.items) : list.items[k].sub = <<>>

\* the trimmed texts of the items of a flat list that are not empty
NonEmptyItems(list) ==
    SelectSeq([k \in 1..Len(list.items) |-> strip(list.items[k].text)], LAMBDA t : t # <<>>)

\* one fragment per non-empty item, in the order of the list
ItemFragments(f, list) ==
    [k \in 1..Len(NonEmptyItems(list)) |->
        (IF list.tag = "ul" THEN UnorderedMark(f) ELSE str(k) \o <<".", " ">>)
            \o NonEmptyItems(list)[k]]

\* the page is a question followed by one list and nothing else
QuestionAndList(pg) ==
    /\ pg.content
    /\ pg.card
    /\ Len(pg.nodes) = 2
    /\ IsQuestion(pg.nodes[1])
    /\ pg.nodes[2].tag \in {"ul", "ol"}
    /\ ~pg.nodes[1].bad
    /\ ~pg.nodes[2].bad

\* C13, as stated: a question followed by the unordered list of the items A and B
\* has the fragments "- A", "- B" (or with the bullet), followed by the ordered list
\* of the same items the fragments "1. A", "2. B"; in general a flat list gives one
\* fragment per non-empty item, in the order of the list
C13_ListFragments ==
    (AssemblyDone /\ QuestionAndList(page)) =>
        /\ page.nodes[2] = NodeUl =>
              faq_data = <<FaqRecord(strip(page.nodes[1].text),
                             join(FragmentSep(fn),
                                  <<UnorderedMark(fn) \o <<"A">>, UnorderedMark(fn) \o <<"B">>>>))>>
        /\ page.nodes[2] = NodeOl =>
              faq_data = <<FaqRecord(strip(page.nodes[1].text),
                             join(FragmentSep(fn),
                                  <<<<"1", ".", " ", "A">>, <<"2", ".", " ", "B">>>>))>>
        /\ Flat(page.nodes[2]) =>
              faq_data = <<FaqRecord(strip(page.nodes[1].text),
                             join(FragmentSep(fn), ItemFragments(fn, page.nodes[2])))>>
\* s.split(sep), from the text cur read so far
RECURSIVE Split(_, _, _)
Split(s, sep, cur) ==
    IF s = <<>> THEN <<cur>>
    ELSE IF Len(s) >= Len(sep) /\ SubSeq(s, 1, Len(sep)) = sep
         THEN <<cur>> \o Split(SubSeq(s, Len(sep) + 1, Len(s)), sep, <<>>)
         ELSE Split(Tail(s), sep, Append(cur, Head(s)))

\* the fragments a recorded answer was joined from
FragmentsOf(f, answer) == IF answer = <<>> THEN <<>> ELSE Split(answer, FragmentSep(f), <<>>)

\* a fragment made for the nested item X of NodeOlNested: a prefix and the text X
IsForX(fragment) ==
    /\ fragment # <<>>
    /\ fragment[Len(fragment)] = "X"
    /\ \A k \in 1..Len(fragment) : fragment[k] # "A"

\* C14, as stated: for a question followed by an ordered list whose first item has
\* a nested list with the single item X, the answer has exactly one fragment for
\* X, it begins with two spaces, and X is no top-level (unindented) fragment
C14_NestedItemIndented ==
    (AssemblyDone /\ QuestionAndList(page) /\ page.nodes[2] = NodeOlNested) =>
        /\ Len(faq_data) = 1
        /\ LET fragments == FragmentsOf(fn, faq_data[1].answer)
               forX == {k \in 1..Len(fragments) : IsForX(fragments[k])}
           IN /\ Cardinality(forX) = 1
              /\ \A k \in forX : SubSeq(fragments[k], 1, 2) = Indent
\* C15, as stated: a question whose following siblings yield no fragment, on a
\* page that has answer paragraphs (p.card-text) elsewhere in the content
\* container, gets an answer built from those paragraphs, which is not empty; a
\* question whose siblings yield fragments gets the answer built from these
C15_FallbackParagraphs ==
    (AssemblyDone /\ EntersLoop(page)) =>
        LET kept == Kept(page) IN
        /\ Len(faq_data) = Len(kept)
        /\ \A k \in 1..Len(kept) :
             /\ (~HasFragment(page, kept[k]) /\ PW_all_p(page.nodes) # <<>>) =>
                   /\ faq_data[k].answer # <<>>
                   /\ faq_data[k].answer = join(FragmentSep(fn), PW_all_p(page.nodes))
             /\ HasFragment(page, kept[k]) =>
                   faq_data[k].answer =
                       join(FragmentSep(fn),
                            CollectAnswer(following_elements(page, kept[k]), 1, <<>>).parts)
(***************************************************************************)
(* Claims on the link-list strategy (specification Spec).                  *)
(***************************************************************************)
\* the links of the content container that can be read and have a visible text
\* and a target, in document order
LinksWithTextAndTarget(pg) ==
    SelectSeq(pg.nodes,
              LAMBDA e : e.tag = "a" /\ ~e.bad /\ strip(e.text) # <<>> /\ e.href # <<>>)

\* the reference "[text](href)"
Reference(text, href) == <<"[">> \o text \o <<"]", "(">> \o href \o <<")">>

\* C16: extract_useful_link returns exactly one record per link of the content
\* container that has a visible text and a target, in document order, with the
\* trimmed text as question and the reference "[text](href)" as answer; a link
\* without text or without target gives no record, and neither does a link outside
\* the first content container
C16_OneRecordPerLink ==
    (Returned("useful_link") /\ EntersLoop(page)) =>
        LET links == LinksWithTextAndTarget(page) IN
        /\ Len(faq_data) = Len(links)
        /\ \A k \in 1..Len(links) :
             /\ faq_data[k].question = strip(links[k].text)
             /\ faq_data[k].answer = Reference(strip(links[k].text), links[k].href)
        /\ page.nodes = <<NodeLinkNoText, NodeLink, NodeLinkNoHref>> =>
             faq_data = <<FaqRecord(<<"L">>, <<"[", "L", "]", "(", "/", "u", ")">>)>>

\* C16, witness: a container with a link without text, a link with text and target
\* and a link without target, and a link outside the container; one record
C16_Witness ==
    /\ Returned("useful_link")
    /\ EntersLoop(page)
    /\ page.nodes = <<NodeLinkNoText, NodeLink, NodeLinkNoHref>>
    /\ \E k \in 1..Len(page.rest) : page.rest[k] = NodeLink
    /\ faq_data = <<FaqRecord(<<"L">>, Reference(<<"L">>, TxtU))>>
(***************************************************************************)
(* Claims on the bounds of an answer (specification SpecAssembly).         *)
(***************************************************************************)
\* the position of the first question marker after position i, or Len + 1
RECURSIVE NextQuestion(_, _)
NextQuestion(pg, i) ==
    IF i + 1 > Len(pg.nodes) THEN Len(pg.nodes) + 1
    ELSE IF IsQuestion(pg.nodes[i + 1]) THEN i + 1
    ELSE NextQuestion(pg, i + 1)

\* the page cut after the question marker that follows position i, the text of
\* that marker removed: what lies at or after the next question is gone
UpToNextQuestion(pg, i) ==
    LET j == NextQuestion(pg, i) IN
    IF j > Len(pg.nodes) THEN pg
    ELSE [pg EXCEPT !.nodes = Append(SubSeq(pg.nodes, 1, j - 1),
                                     [pg.nodes[j] EXCEPT !.text = <<>>])]

\* the body of the loop over the questions, of either implementation
AssemblyBody(f, pg, i) ==
    IF f = "pw_inline" THEN PW_QuestionBody(pg, i) ELSE FaqClaimBody(pg, i)

\* the records of the questions, each made from the page cut at its next question
RECURSIVE BoundedRecords(_, _, _, _)
BoundedRecords(f, pg, elems, k) ==
    IF k > Len(elems) THEN <<>>
    ELSE AssemblyBody(f, UpToNextQuestion(pg, elems[k]), elems[k])
             \o BoundedRecords(f, pg, elems, k + 1)

\* the loop over the questions was entered
AssemblyRan ==
    /\ AssemblyDone
    /\ page.card
    /\ fn = "faq_claim" => page.content

FallbackRan(f, pg, i) ==
    /\ f = "pw_inline"
    /\ ~pg.nodes[i].bad
    /\ LET got == PW_SiblingPass(PW_siblings(pg, i), 1, <<>>)
       IN ~got.raised /\ got.parts = <<>>

\* the record the fallback makes: every answer paragraph of the container
FallbackRecords(pg, i) ==
    IF PW_all_p(pg.nodes) = <<>> THEN <<>>
    ELSE <<FaqRecord(strip(pg.nodes[i].text), join(<<"\n">>, PW_all_p(pg.nodes)))>>

RECURSIVE BoundedOrFallback(_, _, _, _)
BoundedOrFallback(f, pg, elems, k) ==
    IF k > Len(elems) THEN <<>>
    ELSE (IF FallbackRan(f, pg, elems[k]) THEN FallbackRecords(pg, elems[k])
          ELSE AssemblyBody(f, UpToNextQuestion(pg, elems[k]), elems[k]))
             \o BoundedOrFallback(f, pg, elems, k + 1)

IsOrderedItem(fragment) ==
    fragment # <<>> /\ \E d \in 1..Len(Digits) : fragment[1] = Digits[d]

\* the number of fragments the nodes give, one per answer paragraph with text and
\* one per list item with text
RECURSIVE CountFragments(_, _)
CountFragments(nodes, k) ==
    IF k > Len(nodes) \/ IsQuestion(nodes[k]) THEN 0
    ELSE (IF nodes[k].tag = "p" /\ "card-text" \in nodes[k].cls /\ strip(nodes[k].text) # <<>>
          THEN 1
          ELSE IF nodes[k].tag \in {"ul", "ol"}
               THEN Len(SelectSeq(AllLiTexts(nodes[k].items), LAMBDA t : strip(t) # <<>>))
               ELSE 0)
         + CountFragments(nodes, k + 1)

\* C18: the ordinal of an ordered item is one more than the number of fragments
\* collected for the answer before it, not its position in its list: the m-th
\* fragment of an answer, when it is an ordered item, begins with "m. ", so that an
\* ordered list after k earlier fragments starts at k + 1 and the ordinals of
\* successive items go up by one
C18_OrdinalIsFragmentCount ==
    (Returned("faq_claim") /\ EntersLoop(page)) =>
        LET kept == Kept(page) IN
        \A k \in 1..Len(kept) :
            LET fragments == FragmentsOf(fn, faq_data[k].answer) IN
            /\ Len(fragments) = CountFragments(page.nodes, kept[k] + 1)
            /\ \A m \in 1..Len(fragments) :
                 IsOrderedItem(fragments[m]) =>
                     SubSeq(fragments[m], 1, Len(str(m)) + 2) = str(m) \o <<".", " ">>
            /\ following_elements(page, kept[k]) = <<NodeP, NodeOl>> =>
                 fragments = <<<<"A">>, <<"2", ".", " ", "A">>, <<"3", ".", " ", "B">>>>

\* C18, witness: an ordered list of two items after one answer paragraph, numbered
\* 2 and 3
C18_Witness ==
    /\ Returned("faq_claim")
    /\ page.nodes = <<NodeQ1, NodeP, NodeOl>>
    /\ Len(faq_data) = 1
    /\ faq_data[1].answer =
          join(<<"\n", "\n">>, <<<<"A">>, <<"2", ".", " ", "A">>, <<"3", ".", " ", "B">>>>)
(***************************************************************************)
(* Claims on the browser resources of a run (specification SpecProd; the   *)
(* formulas are those of SpecNew and SpecPW as well).                      *)
(***************************************************************************)
\* the run is about to open the page of an attempt
AboutToOpenPage == rpc \in {"new_page", "new_loop", "pw_loop"}

\* the run is over
RunEnded == rpc \in {"returned", "raised", "done"}

\* C19: every page opened for a category is closed, on every exit path and at every
\* attempt, before the next page is opened: at most one page is open at any time,
\* none when a page is about to be opened or a category is recorded, and none
\* when the run has ended
C19_PagesClosedOnEveryPath ==
    /\ pages.open <= 1
    /\ (AboutToOpenPage \/ rpc = "record" \/ RunEnded) =>
          /\ pages.open = 0
          /\ pages.close_calls = pages.opened

\* C19, witness: the third attempt of a category is about to open its page, the
\* pages of the two failed attempts having been opened and closed
C19_Witness ==
    /\ rpc = "new_page"
    /\ attempt = 2
    /\ pages.opened = 2
    /\ pages.close_calls = 2
    /\ pages.open = 0
    /\ sc.error \in {"TimeoutError", "PlaywrightError"}
\* create_browser is in its loop
LaunchUnderWay == rpc \in {"create_browser", "new_launch"}

\* C20: create_browser makes at most retries + 1 = 3 launch attempts, returns the
\* browser of the first attempt that succeeds and makes no further one, pauses
\* after each failed attempt but the last (1, then 2 seconds), and raises after
\* the last failed attempt: the run fails and no category is scraped
C20_LaunchRetriedWithBackoff ==
    /\ launches <= retries + 1
    /\ retries + 1 = 3
    /\ browser.launched <= 1
    /\ \A k \in 1..Len(slept) : slept[k] \in {1, Pow2(k - 1)}
    /\ LaunchUnderWay =>
          /\ browser.launched = 0
          /\ launches <= retries
          /\ Len(slept) = launches
    /\ browser.launched = 1 =>
          /\ ~LaunchUnderWay
          /\ Len(slept) = launches - 1
    /\ (browser.launched = 0 /\ launches > 0 /\ ~LaunchUnderWay) =>
          /\ launches = retries + 1
          /\ Len(slept) = retries
          /\ exc = "Exception"
          /\ visited = <<>>
          /\ grouped_faqs = <<>>
          /\ rpc # "returned"
          /\ HandlerOver => response.statusCode # 200

\* C20, witness: three launch attempts failed, with pauses of 1 and 2 seconds, and
\* the handler answered with the failure response
C20_Witness ==
    /\ HandlerOver
    /\ launches = 3
    /\ browser.launched = 0
    /\ slept = <<1, 2>>
    /\ response.statusCode = 500
    /\ visited = <<>>
(***************************************************************************)
(* Claims on failures inside and outside the loop of an extraction         *)
(* function.                                                               *)
(***************************************************************************)
\* processing the element at position i fails: reading it or one of its siblings
\* (a list item included) throws
Fails(f, pg, i) == IF f = "faq_claim" THEN Skipped(pg, i) ELSE pg.nodes[i].bad

\* the element at position i is recorded when it is processed
Recorded(f, pg, i) ==
    /\ ~Fails(f, pg, i)
    /\ f = "useful_link" => strip(pg.nodes[i].text) # <<>> /\ pg.nodes[i].href # <<>>

\* the elements recorded among the first n the loop runs over
RecordedAmong(f, pg, n) ==
    SelectSeq(SubSeq(LoopElements(f, pg), 1, n), LAMBDA i : Recorded(f, pg, i))

\* C21: a failure while one question node (or link) is processed skips only that
\* one: after any number of iterations the records are those of the elements
\* processed so far whose processing did not fail, in order (so the records made
\* before a failure are kept and the elements after it are still recorded), and
\* the function returns only after every element was processed
C21_FailureSkipsOneQuestion ==
    (fn \in {"faq_claim", "useful_link"} /\ epc \in {"loop", "returned"} /\ EntersLoop(page)) =>
        LET done == RecordedAmong(fn, page, qi - 1) IN
        /\ Len(faq_data) = Len(done)
        /\ \A k \in 1..Len(done) : faq_data[k].question = strip(page.nodes[done[k]].text)
        /\ epc = "returned" => qi = Len(LoopElements(fn, page)) + 1

\* C21, witness: extract_faq_claim returned from a page on which the processing of
\* one question node failed and a later question node was recorded
C21_Witness ==
    /\ Returned("faq_claim")
    /\ EntersLoop(page)
    /\ \E i, j \in 1..Len(page.nodes) :
         /\ i < j
         /\ IsQuestion(page.nodes[i]) /\ IsQuestion(page.nodes[j])
         /\ Fails("faq_claim", page, i)
         /\ ~Fails("faq_claim", page, j)
         /\ faq_data = <<FaqRecord(strip(page.nodes[j].text), <<>>)>>
(***************************************************************************)
(* Claims on the selection of the extraction function.                     *)
(***************************************************************************)
\* the question-and-answer strategies
QAStrategies == {"faq_general", "faq_claim", "faq_evidence", "faq_report", "finder_info"}

\* the strategy written for a known identifier: its link-list or its own
\* question-and-answer function
OwnStrategy(id) ==
    CASE id = Slug("useful", "link") -> "useful_link"
      [] id = Slug("faq", "general") -> "faq_general"
      [] id = Slug("faq", "claim") -> "faq_claim"
      [] id = Slug("faq", "evidence") -> "faq_evidence"
      [] id = Slug("faq", "report") -> "faq_report"
      [] id = Slug("finder", "info") -> "finder_info"

\* the categories of the run whose scrape is over: their positions in urls
Scraped == {k \in 1..Len(urls) : k < ui /\ urls[k].isstr}

\* C22: get_extraction_method returns the link-list strategy for "useful-link",
\* for each of the five other known identifiers its own question-and-answer
\* strategy, and the general question-and-answer strategy for every other
\* identifier; a URL with an unlisted slug is extracted with that strategy and its
\* category gets an entry under its title-cased slug
C22_StrategySelectionTotal ==
    /\ (rpc \in {"close_page", "record"} /\ sc.after = "return") =>
          LET id == category_id_of(urls[ui]) IN
          IF id \in CategoryIds
          THEN /\ sc.method = OwnStrategy(id)
               /\ sc.method = "useful_link" <=> id = Slug("useful", "link")
               /\ sc.method \in QAStrategies <=> id # Slug("useful", "link")
          ELSE /\ sc.method = "faq_general"
               /\ \E pg \in RunPages : sc.faq_data = extract_qa_card(pg)
    /\ rpc \in {"loop", "returned"} =>
          \A k \in Scraped :
             LET id == category_id_of(urls[k])
                 category_name == category_name_of(urls[k])
             IN /\ category_name \in DOMAIN grouped_faqs
                /\ id \notin CategoryIds => category_name = title(Dashless(id))
                /\ id = Slug("some", "id") => category_name = <<"Some", " ", "Id">>

\* C22, witness: the run scraped a URL with an unlisted slug and its category has
\* an entry with the records the general strategy extracted
C22_Witness ==
    /\ rpc = "returned"
    /\ \E k \in Scraped :
         /\ category_id_of(urls[k]) = Slug("some", "id")
         /\ <<"Some", " ", "Id">> \in DOMAIN grouped_faqs
         /\ grouped_faqs[<<"Some", " ", "Id">>] = extract_qa_card(PageTwo)
(***************************************************************************)
(* Claims on the failures of an extraction function outside its loop.      *)
(***************************************************************************)
\* the extraction function was called on a loaded page and did not reach its loop:
\* the wait for the page content timed out, or the content container is absent
StoppedBeforeLoop(c) == c.loaded # NoPage /\ ~EntersLoop(c.loaded)

\* C23: an extraction function does not raise to its caller: called on a page
\* whose content does not appear in time or that has no content container, it
\* returns the empty sequence; scrape_single_category takes that as a successful
\* attempt (no retry, no error) and the category is recorded with no record,
\* neither in errors nor among the failed categories
C23_ExtractionNeverRaises ==
    [][/\ (rpc = "goto" /\ StoppedBeforeLoop(sc')) =>
             /\ sc'.faq_data = <<>>
             /\ sc'.after = "return"
             /\ sc'.error = "none"
             /\ attempt' = attempt
       /\ (rpc = "record" /\ StoppedBeforeLoop(sc)) =>
             /\ sc.error = "none"
             /\ category_name_of(urls[ui]) \in DOMAIN grouped_faqs'
             /\ grouped_faqs'[category_name_of(urls[ui])] = <<>>
             /\ total_count' = total_count
             /\ errors' = errors
             /\ failed' = failed
             /\ ui' = ui + 1]_vars

\* C23, witness: extract_faq_claim was called on a page whose content did not
\* appear in time and returned no record; the first attempt at the category ends
\* as a success and the category is about to be recorded
C23_Witness ==
    /\ rpc = "record"
    /\ sc.loaded = PageLate
    /\ sc.method = "faq_claim"
    /\ sc.faq_data = <<>>
    /\ sc.after = "return"
    /\ sc.error = "none"
    /\ attempt = 0
(***************************************************************************)
(* Claims on the attempts of scrape_single_category of prod-scraper.       *)
(***************************************************************************)
PlaywrightErrors == {"TimeoutError", "PlaywrightError"}

\* scrape_single_category is under way
InCategory == rpc \in {"new_page", "goto", "close_page", "record"}

\* C24: scrape_single_category makes at most max_retries + 1 = 3 attempts at a
\* category; a new attempt follows a Playwright timeout or error only, after a pause,
\* on a page opened anew; a successful attempt returns its records and is the last;
\* another exception ends the category at once with no record; after the last
\* failed attempt the result is empty; the function returns to its caller and
\* raises nothing
C24_AttemptsBounded ==
    InCategory =>
        /\ max_retries + 1 = 3
        /\ attempt <= max_retries
        /\ pages.opened <= attempt + 1
        /\ exc = "none"
        /\ sc.slept = [k \in 1..attempt |-> Pow2(k - 1)]
        /\ rpc \in {"new_page", "goto"} =>
              /\ sc.after = "none"
              /\ sc.faq_data = <<>>
              /\ attempt = 0 => sc.error = "none"
              /\ attempt > 0 => sc.error \in PlaywrightErrors
        /\ rpc = "new_page" => ~sc.page /\ pages.open = 0 /\ pages.opened <= attempt
        /\ rpc = "goto" => sc.page /\ pages.open = 1 /\ pages.opened >= 1
        /\ (rpc = "close_page" /\ sc.after = "retry") =>
              sc.error \in PlaywrightErrors /\ attempt < max_retries
        /\ rpc = "record" =>
              /\ sc.after \in {"return", "empty"}
              /\ sc.after = "return" =>
                    /\ sc.error = "none"
                    /\ sc.loaded \in LoadedPages
                    /\ sc.faq_data = extraction_method(category_id_of(urls[ui]), sc.loaded)
              /\ sc.after = "empty" =>
                    /\ sc.faq_data = <<>>
                    /\ sc.error = "Exception" \/ (sc.error \in PlaywrightErrors /\ attempt = max_retries)

\* C24, witness: three attempts at a category failed on a Playwright timeout or
\* error, with pauses of 1 and 2 seconds between them, and the category ends with
\* the empty result
C24_Witness ==
    /\ rpc = "record"
    /\ attempt = max_retries
    /\ pages.opened = 3
    /\ sc.slept = <<1, 2>>
    /\ sc.error \in PlaywrightErrors
    /\ sc.after = "empty"
    /\ sc.faq_data = <<>>

====
